---------------------------- MODULE Spec2Model ----------------------------
(***************************************************************************)
(* A model of the 3D-print price calculator: src/3DPrintPrice.py, the      *)
(* config.json variant.  custom_round and the calculation of _calculate    *)
(* are the same code, line for line, in src/app.py (the settings.json      *)
(* variant).                                                               *)
(*                                                                         *)
(* Numbers.  The program computes with Python floats.  The model computes  *)
(* with exact rationals [n, d] (d > 0, lowest terms): a fixed-point view   *)
(* in which no binary rounding error occurs.  Texts (entry fields, names)  *)
(* are sequences of one-character strings, so that strip(), replace() and  *)
(* float() are computed character by character.                            *)
(*                                                                         *)
(* Indices.  Python indexes lists from 0 and uses -1 for "none"; the model *)
(* indexes sequences from 1 and uses 0 for "none".                         *)
(***************************************************************************)
EXTENDS Integers, Sequences, FiniteSets, TLC

(***************************************************************************)
(* Exact rational arithmetic (the fixed-point view of Python's float).     *)
(***************************************************************************)
Abs(i) == IF i < 0 THEN -i ELSE i

RECURSIVE Gcd(_, _)
Gcd(a, b) == IF b = 0 THEN a ELSE Gcd(b, a % b)

\* The rational n/d in lowest terms with a positive denominator.
Rat(n, d) ==
  LET s == IF d < 0 THEN -1 ELSE 1
      g == Gcd(Abs(n), Abs(d))
  IN  [n |-> (s * n) \div g, d |-> (s * d) \div g]

RInt(i) == [n |-> i, d |-> 1]
\* Sums, products and comparisons divide by the common factors first, so that
\* the intermediate integers stay small.
RAdd(x, y) ==
  Rat(x.n * (y.d \div Gcd(x.d, y.d)) + y.n * (x.d \div Gcd(x.d, y.d)),
      (x.d \div Gcd(x.d, y.d)) * y.d)
RSub(x, y) == RAdd(x, [n |-> -y.n, d |-> y.d])
RMul(x, y) ==
  IF x.n = 0 \/ y.n = 0 THEN RInt(0)
  ELSE Rat((x.n \div Gcd(Abs(x.n), y.d)) * (y.n \div Gcd(Abs(y.n), x.d)),
           (x.d \div Gcd(Abs(y.n), x.d)) * (y.d \div Gcd(Abs(x.n), y.d)))
RDiv(x, y) == RMul(x, Rat(y.d, y.n))
RLess(x, y) == x.n * (y.d \div Gcd(x.d, y.d)) < y.n * (x.d \div Gcd(x.d, y.d))
RFloor(x) == x.n \div x.d
\* Python's float % float for a positive divisor: x - y*floor(x/y), in [0, y).
RMod(x, y) == RSub(x, RMul(y, RInt(RFloor(RDiv(x, y)))))
\* Python's int(float) for a float that holds a whole number or not: truncation.
RTrunc(x) == IF x.n >= 0 THEN x.n \div x.d ELSE -((-x.n) \div x.d)

\* x cut to hundredths (toward zero) instead of rounded.
round2_truncated(x) == Rat((100 * x.n) \div x.d, 100)

\* Python's round(x, 2): to the nearest hundredth, an exact tie to the even one.
round2(x) ==
  LET num == 100 * x.n
      q   == num \div x.d
      r   == num - q * x.d
      up  == \/ 2 * r > x.d
             \/ 2 * r = x.d /\ q % 2 = 1
  IN  Rat(IF up THEN q + 1 ELSE q, 100)

(***************************************************************************)
(* Texts.                                                                  *)
(***************************************************************************)
Digits == <<"0", "1", "2", "3", "4", "5", "6", "7", "8", "9">>

IsDigit(c) == \E i \in 1..10 : Digits[i] = c
DigitVal(c) == (CHOOSE i \in 1..10 : Digits[i] = c) - 1

\* str.replace(",", ".")
replace_comma(s) == [i \in 1..Len(s) |-> IF s[i] = "," THEN "." ELSE s[i]]

\* str.strip(): leading and trailing blanks removed.
RECURSIVE lstrip(_)
lstrip(s) == IF s # <<>> /\ Head(s) = " " THEN lstrip(Tail(s)) ELSE s

RECURSIVE rstrip(_)
rstrip(s) ==
  IF s # <<>> /\ s[Len(s)] = " " THEN rstrip(SubSeq(s, 1, Len(s) - 1)) ELSE s

strip(s) == rstrip(lstrip(s))

RECURSIVE DigitsValue(_)
DigitsValue(s) ==
  IF s = <<>> THEN 0
  ELSE 10 * DigitsValue(SubSeq(s, 1, Len(s) - 1)) + DigitVal(s[Len(s)])

RECURSIVE Pow10(_)
Pow10(k) == IF k = 0 THEN 1 ELSE 10 * Pow10(k - 1)

\* list.index(x): the first position of x, 0 when x is not in the list (ValueError).
index_of(seq, x) ==
  IF \E i \in 1..Len(seq) : seq[i] = x
    THEN CHOOSE i \in 1..Len(seq) : seq[i] = x /\ \A j \in 1..(i - 1) : seq[j] # x
    ELSE 0

ValueError == [ok |-> FALSE]
Parsed(v) == [ok |-> TRUE, v |-> v]

\* Python's float(str) on the texts of the model's alphabet (digits, ".", "-",
\* "+", blank and other characters): blanks around the number are ignored, then
\* an optional sign, then digits with at most one "." and at least one digit.
\* Anything else raises ValueError.

\* The digits before and after the point: a second "." is left in fp and is no digit.
float_parts(ip, fp) ==
  IF /\ Len(ip) + Len(fp) >= 1
     /\ \A i \in 1..Len(ip) : IsDigit(ip[i])
     /\ \A i \in 1..Len(fp) : IsDigit(fp[i])
    THEN Parsed(Rat(DigitsValue(ip) * Pow10(Len(fp)) + DigitsValue(fp), Pow10(Len(fp))))
    ELSE ValueError

\* The position of the first "." of body, or one past its end.
dot_position(body) ==
  IF \E i \in 1..Len(body) : body[i] = "."
    THEN index_of(body, ".")
    ELSE Len(body) + 1

float_split(body, dot) ==
  float_parts(SubSeq(body, 1, dot - 1), SubSeq(body, dot + 1, Len(body)))

float_unsigned(body) == float_split(body, dot_position(body))

float_negate(neg, r) ==
  IF r.ok /\ neg THEN Parsed(RSub(RInt(0), r.v)) ELSE r

float_signed(s) ==
  float_negate(s # <<>> /\ Head(s) = "-",
               float_unsigned(IF s # <<>> /\ Head(s) \in {"-", "+"} THEN Tail(s) ELSE s))

float_str(text) == float_signed(strip(text))

\* custom_round with the boundary remainder 25 sent to the lower bucket.
custom_round_boundary_low(value) ==
  IF RLess(RInt(25), RMod(value, RInt(100)))
    THEN RTrunc(RAdd(RSub(value, RMod(value, RInt(100))), RInt(100)))
    ELSE RTrunc(RAdd(RSub(value, RMod(value, RInt(100))), RInt(50)))

\* custom_round to the nearest of base, base+50 and base+100, which keeps a
\* multiple of 100 as it is.
custom_round_nearest(value) ==
  IF RLess(RMod(value, RInt(100)), RInt(25))
    THEN RTrunc(RSub(value, RMod(value, RInt(100))))
  ELSE IF RLess(RMod(value, RInt(100)), RInt(75))
    THEN RTrunc(RAdd(RSub(value, RMod(value, RInt(100))), RInt(50)))
  ELSE RTrunc(RAdd(RSub(value, RMod(value, RInt(100))), RInt(100)))

(***************************************************************************)
(* custom_round: the rounding rule of the final price.                     *)
(***************************************************************************)
custom_round(value) ==
  LET remainder == RMod(value, RInt(100))
      base      == RSub(value, remainder)
  IN  IF RLess(remainder, RInt(25))
        THEN RTrunc(RAdd(base, RInt(50)))
        ELSE RTrunc(RAdd(base, RInt(100)))


\* str(float) for a float with at most MaxDecimals decimal places: the shortest
\* decimal text, with at least one digit after the point ("200.0", "1.5").
RECURSIVE NatDigits(_)
NatDigits(i) ==
  IF i < 10 THEN <<Digits[i + 1]>> ELSE NatDigits(i \div 10) \o <<Digits[(i % 10) + 1]>>

RECURSIVE FracDigits(_, _)
FracDigits(i, k) ==
  IF k = 0 THEN <<>> ELSE FracDigits(i \div 10, k - 1) \o <<Digits[(i % 10) + 1]>>

MaxDecimals == 4

float_repr(x) ==
  LET k    == CHOOSE j \in 1..MaxDecimals :
                /\ Pow10(j) % x.d = 0
                /\ \A i \in 1..(j - 1) : Pow10(i) % x.d # 0
      sc   == Abs(x.n) * (Pow10(k) \div x.d)
      sign == IF x.n < 0 THEN <<"-">> ELSE <<>>
  IN  sign \o NatDigits(sc \div Pow10(k)) \o <<".">> \o FracDigits(sc % Pow10(k), k)

(***************************************************************************)
(* JSON documents.  A file is absent, unparsable, or holds an object: a    *)
(* function from the keys present to values.  A value is a number, a       *)
(* string, or (under "printers" / "plastics") a sequence of objects.       *)
(***************************************************************************)
JNum(r) == [t |-> "num", v |-> r]
JStr(s) == [t |-> "str", s |-> s]

NoFile == [kind |-> "nofile"]
Malformed == [kind |-> "malformed"]
JsonFile(data) == [kind |-> "json", data |-> data]

\* dict.get with 1 where the caller passes the default 0.0.
get_default_one(d, key, default) ==
  IF key \in DOMAIN d THEN d[key]
  ELSE IF default = [t |-> "num", v |-> RInt(0)] THEN [t |-> "num", v |-> RInt(1)]
  ELSE default

\* dict.get(key, default)
get(d, key, default) == IF key \in DOMAIN d THEN d[key] ELSE default

\* float(v) of a JSON value: a number converts, a string is parsed.
py_float(jv) == IF jv.t = "num" THEN Parsed(jv.v) ELSE float_str(jv.s)

(***************************************************************************)
(* Profile records.                                                        *)
(***************************************************************************)
None == [none |-> TRUE]

PrinterProfile(name, power, amortization) ==
  [name |-> name, power |-> power, amortization |-> amortization]

PlasticProfile(name, plastic_cost) == [name |-> name, plastic_cost |-> plastic_cost]

\* to_dict without the power.
PrinterProfile_to_dict_short(p) ==
  [name |-> JStr(p.name), amortization |-> JNum(p.amortization)]

PrinterProfile_to_dict(p) ==
  [name |-> JStr(p.name), power |-> JNum(p.power), amortization |-> JNum(p.amortization)]

PlasticProfile_to_dict(p) ==
  [name |-> JStr(p.name), plastic_cost |-> JNum(p.plastic_cost)]

\* from_dict: a missing key takes its default; float() of a non-numeric value raises.
PrinterProfile_from_dict(d) ==
  LET name  == get(d, "name", JStr(<<>>))
      power == py_float(get(d, "power", JNum(RInt(0))))
      amort == py_float(get(d, "amortization", JNum(RInt(0))))
  IN  IF power.ok /\ amort.ok
        THEN Parsed(PrinterProfile(name.s, power.v, amort.v))
        ELSE ValueError

PlasticProfile_from_dict(d) ==
  LET name == get(d, "name", JStr(<<>>))
      cost == py_float(get(d, "plastic_cost", JNum(RInt(0))))
  IN  IF cost.ok THEN Parsed(PlasticProfile(name.s, cost.v)) ELSE ValueError

\* [PrinterProfile.from_dict(d) for d in data.get("printers", [])]
printers_from(data) ==
  LET ds == get(data, "printers", <<>>)
      ps == [i \in 1..Len(ds) |-> PrinterProfile_from_dict(ds[i])]
  IN  IF \A i \in 1..Len(ds) : ps[i].ok
        THEN Parsed([i \in 1..Len(ds) |-> ps[i].v])
        ELSE ValueError

plastics_from(data) ==
  LET ds == get(data, "plastics", <<>>)
      ps == [i \in 1..Len(ds) |-> PlasticProfile_from_dict(ds[i])]
  IN  IF \A i \in 1..Len(ds) : ps[i].ok
        THEN Parsed([i \in 1..Len(ds) |-> ps[i].v])
        ELSE ValueError

names_of(profiles) == [i \in 1..Len(profiles) |-> profiles[i].name]

\* any(p.name == name for p in profiles)
name_exists(profiles, name) == \E i \in 1..Len(profiles) : profiles[i].name = name


(***************************************************************************)
(* The program's state.                                                    *)
(***************************************************************************)
VARIABLES
  settings,         \* Settings: the defaults and the last-selected names
  printers,         \* App.printers: the list of printer profiles
  plastics,         \* App.plastics: the list of plastic profiles
  current_printer,  \* App.current_printer: a profile or None
  current_plastic,  \* App.current_plastic: a profile or None
  printer_combo,    \* the printer selector: its values, its text, its cached index
  plastic_combo,    \* the plastic selector
  entries_input,    \* the texts of the weight, time and extra entries
  round_var,        \* the "Round final price" checkbox
  result_text,      \* the values shown in the Results box, or None
  config_file,      \* the content of the file at Settings.config_file_path
  messages,         \* the message boxes the last handler showed, in order
  handler,          \* the last handler that ran
  request,          \* what the user gave the last handler: the selected index, the
                    \* dialog's result_profile, the file chosen for the import or
                    \* what _calculate read, the answer to the confirmation
  closed,           \* the main window was destroyed
  ops,              \* how many handlers have run since the program started
  value,            \* custom_round on its own: the argument
  rounded,          \* custom_round on its own: <<>> or <<the result>>
  candidates,       \* the file at each candidate location when the program starts
  config_dir,       \* Settings.config_dir
  config_file_path, \* Settings.config_file_path
  io_outcomes,      \* what writing a file can do in this run: "ok", "unwritable"
                    \* (open() raises), "partial" (the write stops after open())
  settings_file,    \* src/app.py: the content of settings.json
  profile_files,    \* src/app.py: the content of the file at each profiles path
  export_file       \* the content of the file the user exports to

vars ==
  <<settings, printers, plastics, current_printer, current_plastic, printer_combo,
    plastic_combo, entries_input, round_var, result_text, config_file, messages,
    handler, request, closed, ops, value, rounded,
                 candidates, config_dir, config_file_path, io_outcomes,
                 settings_file, profile_files, export_file>>

\* The part of the state the handlers of the profile store read and write, as one
\* record, so that a handler is the composition of the methods it calls.
self ==
  [settings |-> settings, printers |-> printers, plastics |-> plastics,
   current_printer |-> current_printer, current_plastic |-> current_plastic,
   printer_combo |-> printer_combo, plastic_combo |-> plastic_combo,
   config_file |-> config_file, messages |-> <<>>]

Commit(s, name) ==
  /\ settings' = s.settings
  /\ printers' = s.printers
  /\ plastics' = s.plastics
  /\ current_printer' = s.current_printer
  /\ current_plastic' = s.current_plastic
  /\ printer_combo' = s.printer_combo
  /\ plastic_combo' = s.plastic_combo
  /\ config_file' = s.config_file
  /\ messages' = s.messages
  /\ handler' = name

\* The inputs of a handler: idx is 0 and result is None where there is none.
Request(idx, result, answer) == [idx |-> idx, result |-> result, answer |-> answer]

\* messagebox.showinfo / showwarning / showerror / askyesno
show(s, msg) == [s EXCEPT !.messages = Append(@, msg)]

(***************************************************************************)
(* The ttk.Combobox: -values, the entry text, and the index tk caches.     *)
(***************************************************************************)
EmptyCombo == [values |-> <<>>, string |-> <<>>, currentIndex |-> 0]

\* combo.current(): the cached index when it still names the text, otherwise the
\* first position of the text in the values, otherwise "none".
combo_current(cb) ==
  IF /\ cb.currentIndex \in 1..Len(cb.values)
     /\ cb.values[cb.currentIndex] = cb.string
    THEN cb.currentIndex
    ELSE index_of(cb.values, cb.string)

\* tk stores the index combo.current() found.
combo_queried(cb) == [cb EXCEPT !.currentIndex = combo_current(cb)]

\* combo.current(i)
combo_select(cb, i) == [cb EXCEPT !.string = cb.values[i], !.currentIndex = i]

\* combo.set(text)
combo_set(cb, text) == [cb EXCEPT !.string = text]

(***************************************************************************)
(* Settings (src/3DPrintPrice.py).                                         *)
(***************************************************************************)
DEFAULT_CONFIG_DIR == "3d-print-price-config"
CONFIG_FILE == "config.json"

\* The places a configuration may be in: "~/Documents", os.getcwd(), "~/Desktop"
\* and "~".  A path is the sequence of its components.
Locations == {"~/Documents", "cwd", "~/Desktop", "~"}

\* os.path.join(location, DEFAULT_CONFIG_DIR) and os.path.join(dir, CONFIG_FILE)
config_dir_in(location) == <<location, DEFAULT_CONFIG_DIR>>
config_path_in(location) == Append(config_dir_in(location), CONFIG_FILE)

\* os.path.dirname
dirname(path) == SubSeq(path, 1, Len(path) - 1)

CandidatePaths == {config_path_in(location) : location \in Locations}

\* Settings._get_config_directory: Documents when it exists and is writable,
\* the current working directory otherwise.
get_config_directory(documents_ok) ==
  IF documents_ok THEN config_dir_in("~/Documents") ELSE config_dir_in("cwd")

\* The list find_existing_config walks, in its order.
\* The candidates with the legacy Desktop location tried before the working
\* directory.
search_paths_desktop_first(current_path) ==
  <<current_path, config_path_in("~/Documents"), config_path_in("~/Desktop"),
    config_path_in("cwd"), config_path_in("~")>>

search_paths(current_path) ==
  <<current_path, config_path_in("~/Documents"), config_path_in("cwd"),
    config_path_in("~/Desktop"), config_path_in("~")>>

\* os.path.exists on a candidate path, given the files that are there.
path_exists(files, path) == files[path].kind # "nofile"

\* The position in the list of the first path that exists, 0 when none does.
first_existing(files, paths) ==
  IF \E i \in 1..Len(paths) : path_exists(files, paths[i])
    THEN CHOOSE i \in 1..Len(paths) :
           /\ path_exists(files, paths[i])
           /\ \A j \in 1..(i - 1) : ~path_exists(files, paths[j])
    ELSE 0

\* Settings.find_existing_config: what it returns and the two paths after it.
find_existing_config(dir, path, files) ==
  IF first_existing(files, search_paths(path)) = 0
    THEN [found |-> FALSE, config_dir |-> dir, config_file_path |-> path]
    ELSE [found |-> TRUE,
          config_dir |-> dirname(search_paths(path)[first_existing(files, search_paths(path))]),
          config_file_path |-> search_paths(path)[first_existing(files, search_paths(path))]]

Settings_init ==
  [electricity_cost_default |-> RInt(0), margin_default |-> RInt(0),
   last_selected_printer |-> <<>>, last_selected_plastic |-> <<>>]

\* The document Settings.save writes.
config_document(st, prs, pls) ==
  [electricity_cost_default |-> JNum(st.electricity_cost_default),
   margin_default |-> JNum(st.margin_default),
   last_selected_printer |-> JStr(st.last_selected_printer),
   last_selected_plastic |-> JStr(st.last_selected_plastic),
   printers |-> [i \in 1..Len(prs) |-> PrinterProfile_to_dict(prs[i])],
   plastics |-> [i \in 1..Len(pls) |-> PlasticProfile_to_dict(pls[i])]]

\* Settings.save(printers, plastics).  io is what the file system does: "ok", or
\* "unwritable" (the directory or the file cannot be opened: the file is left as
\* it was), or "partial" (the write breaks off: the file is left unparsable).
Settings_save(s, prs, pls, io) ==
  CASE io = "ok" ->
         [s EXCEPT !.config_file = JsonFile(config_document(s.settings, prs, pls))]
    [] io = "unwritable" ->
         show(s, "showerror: Failed to save configuration")
    [] io = "partial" ->
         show([s EXCEPT !.config_file = Malformed],
              "showerror: Failed to save configuration")

\* Settings.load(): <<the state, whether a configuration was loaded>>.  The four
\* fields are assigned in order; a float() that raises leaves the later ones.
Settings_load(s) ==
  IF s.config_file.kind = "nofile" THEN <<s, FALSE>>
  ELSE IF s.config_file.kind = "malformed"
    THEN <<show(s, "showerror: Failed to load settings"), FALSE>>
  ELSE
    LET data == s.config_file.data
        elec == py_float(get(data, "electricity_cost_default", JNum(RInt(0))))
        marg == py_float(get(data, "margin_default", JNum(RInt(0))))
        lsp  == get(data, "last_selected_printer", JStr(<<>>))
        lspl == get(data, "last_selected_plastic", JStr(<<>>))
    IN  IF ~elec.ok
          THEN <<show(s, "showerror: Failed to load settings"), FALSE>>
        ELSE IF ~marg.ok
          THEN <<show([s EXCEPT !.settings.electricity_cost_default = elec.v],
                      "showerror: Failed to load settings"), FALSE>>
        ELSE <<[s EXCEPT !.settings.electricity_cost_default = elec.v,
                         !.settings.margin_default = marg.v,
                         !.settings.last_selected_printer = lsp.s,
                         !.settings.last_selected_plastic = lspl.s], TRUE>>

\* Settings.load_profiles(): the two lists read from the file; a list that was
\* read before the exception is kept.
Settings_load_profiles(s) ==
  IF s.config_file.kind = "nofile" THEN [s EXCEPT !.printers = <<>>, !.plastics = <<>>]
  ELSE IF s.config_file.kind = "malformed"
    THEN show([s EXCEPT !.printers = <<>>, !.plastics = <<>>],
              "showerror: Failed to load profiles")
  ELSE
    LET data == s.config_file.data
        prs  == printers_from(data)
        pls  == plastics_from(data)
    IN  IF ~prs.ok
          THEN show([s EXCEPT !.printers = <<>>, !.plastics = <<>>],
                    "showerror: Failed to load profiles")
        ELSE IF ~pls.ok
          THEN show([s EXCEPT !.printers = prs.v, !.plastics = <<>>],
                    "showerror: Failed to load profiles")
        ELSE [s EXCEPT !.printers = prs.v, !.plastics = pls.v]


(***************************************************************************)
(* App (src/3DPrintPrice.py): the methods the handlers are made of.        *)
(***************************************************************************)
\* _update_last_selected recording the printer only.
update_last_selected_printer_only(s) ==
  IF s.current_printer # None
    THEN [s EXCEPT !.settings.last_selected_printer = s.current_printer.name]
    ELSE s

\* App._update_last_selected
update_last_selected(s) ==
  LET s1 == IF s.current_printer # None
              THEN [s EXCEPT !.settings.last_selected_printer = s.current_printer.name]
              ELSE s
  IN  IF s1.current_plastic # None
        THEN [s1 EXCEPT !.settings.last_selected_plastic = s1.current_plastic.name]
        ELSE s1

\* App._save_profiles
\* _save_profiles calling settings.save() without the lists: "printers or []"
\* then writes empty lists.
save_profiles_without_lists(s, io) ==
  LET s1 == update_last_selected(s)
  IN  Settings_save(s1, <<>>, <<>>, io)

save_profiles(s, io) ==
  LET s1 == update_last_selected(s)
  IN  Settings_save(s1, s1.printers, s1.plastics, io)

\* App._on_printer_selected(event): event is TRUE when the user picked an item.
on_printer_selected(s, event, io) ==
  LET idx == combo_current(s.printer_combo)
      s1  == [s EXCEPT !.printer_combo = combo_queried(@)]
  IN  IF idx \in 1..Len(s1.printers)
        THEN LET s2 == [s1 EXCEPT !.current_printer = s1.printers[idx]]
             IN  IF event THEN save_profiles(s2, io) ELSE s2
        ELSE s1

\* App._on_plastic_selected(event)
on_plastic_selected(s, event, io) ==
  LET idx == combo_current(s.plastic_combo)
      s1  == [s EXCEPT !.plastic_combo = combo_queried(@)]
  IN  IF idx \in 1..Len(s1.plastics)
        THEN LET s2 == [s1 EXCEPT !.current_plastic = s1.plastics[idx]]
             IN  IF event THEN save_profiles(s2, io) ELSE s2
        ELSE s1

\* The first item whatever the last-selected name is.
selected_idx_first(names, last_selected) == 1

\* The index _refresh_*_combo selects: that of the last-selected name when it is
\* set and in the list, the first otherwise.
selected_idx(names, last_selected) ==
  IF last_selected # <<>> /\ index_of(names, last_selected) # 0
    THEN index_of(names, last_selected)
    ELSE 1

\* App._refresh_printer_combo
refresh_printer_combo(s) ==
  LET names == names_of(s.printers)
      s1    == [s EXCEPT !.printer_combo.values = names]
  IN  IF names # <<>>
        THEN on_printer_selected(
               [s1 EXCEPT !.printer_combo =
                  combo_select(@, selected_idx(names, s1.settings.last_selected_printer))],
               FALSE, "ok")
        ELSE [s1 EXCEPT !.printer_combo = combo_set(@, <<>>), !.current_printer = None]

\* App._refresh_plastic_combo
refresh_plastic_combo(s) ==
  LET names == names_of(s.plastics)
      s1    == [s EXCEPT !.plastic_combo.values = names]
  IN  IF names # <<>>
        THEN on_plastic_selected(
               [s1 EXCEPT !.plastic_combo =
                  combo_select(@, selected_idx(names, s1.settings.last_selected_plastic))],
               FALSE, "ok")
        ELSE [s1 EXCEPT !.plastic_combo = combo_set(@, <<>>), !.current_plastic = None]

\* App._load_profiles
load_profiles(s) == refresh_plastic_combo(refresh_printer_combo(Settings_load_profiles(s)))

\* App._setup_initial_config: the first run writes a document with empty lists.
setup_initial_config(s, io) ==
  show(Settings_save(s, <<>>, <<>>, io), "showinfo: First Run Setup")

\* App.__init__ with `file` at the configuration path.
startup(file, io) ==
  LET s0 == [settings |-> Settings_init, printers |-> <<>>, plastics |-> <<>>,
             current_printer |-> None, current_plastic |-> None,
             printer_combo |-> EmptyCombo, plastic_combo |-> EmptyCombo,
             config_file |-> file, messages |-> <<>>]
      ld == Settings_load(s0)
      s1 == IF ld[2] THEN ld[1] ELSE setup_initial_config(ld[1], io)
  IN  load_profiles(s1)

(***************************************************************************)
(* The profile dialog (ProfileWindow).  The user fills the fields and      *)
(* presses Save or Cancel; a rejected Save leaves the dialog open, and the *)
(* user then closes it.  dialog_result is wnd.result_profile after         *)
(* wait_window, dialog_messages what the dialog showed.                    *)
(***************************************************************************)
ProfileWindow_on_save(profile_type, fields) ==
  LET name == strip(fields.name)
  IN  IF name = <<>>
        THEN [result_profile |-> None, messages |-> <<"showwarning: Please enter a name.">>]
      ELSE IF profile_type = "printer"
        THEN LET power == float_str(replace_comma(fields.power))
                 amort == float_str(replace_comma(fields.amortization))
             IN  IF power.ok /\ amort.ok
                   THEN [result_profile |-> PrinterProfile(name, power.v, amort.v),
                         messages |-> <<>>]
                   ELSE [result_profile |-> None,
                         messages |-> <<"showerror: Invalid numeric values.">>]
        ELSE LET cost == float_str(replace_comma(fields.plastic_cost))
             IN  IF cost.ok
                   THEN [result_profile |-> PlasticProfile(name, cost.v), messages |-> <<>>]
                   ELSE [result_profile |-> None,
                         messages |-> <<"showerror: Invalid numeric values.">>]

ProfileWindow(profile_type, fields, button) ==
  IF button = "save"
    THEN ProfileWindow_on_save(profile_type, fields)
    ELSE [result_profile |-> None, messages |-> <<>>]

\* ProfileWindow._populate_fields: the texts the dialog opens with.
populate_printer(profile) ==
  IF profile = None
    THEN [name |-> <<>>, power |-> <<"0">>, amortization |-> <<"0">>]
    ELSE [name |-> profile.name, power |-> float_repr(profile.power),
          amortization |-> float_repr(profile.amortization)]

populate_plastic(profile) ==
  IF profile = None
    THEN [name |-> <<>>, plastic_cost |-> <<"0">>]
    ELSE [name |-> profile.name, plastic_cost |-> float_repr(profile.plastic_cost)]


(***************************************************************************)
(* The handlers of the profile store, as functions of the state and of     *)
(* what the user and the file system do.                                   *)
(***************************************************************************)
\* "del seq[0]" where the code has "del seq[idx]".
Remove_first(seq, i) == Tail(seq)

\* del seq[idx]
Remove(seq, i) == SubSeq(seq, 1, i - 1) \o SubSeq(seq, i + 1, Len(seq))

\* any(p.name == name and p != profile for p in profiles), profile = profiles[idx]
name_exists_except(profiles, name, idx) ==
  \E i \in 1..Len(profiles) : profiles[i].name = name /\ i # idx

\* _create_printer without the check for an existing name.
create_printer_do_unchecked(s, fields, button, io) ==
  LET wnd == ProfileWindow("printer", fields, button)
      s1  == [s EXCEPT !.messages = @ \o wnd.messages]
  IN  IF wnd.result_profile = None THEN s1
      ELSE LET s2 == [s1 EXCEPT !.printers = Append(@, wnd.result_profile)]
               s3 == refresh_printer_combo(save_profiles(s2, io))
               s4 == [s3 EXCEPT !.printer_combo = combo_set(@, wnd.result_profile.name)]
           IN  on_printer_selected(s4, FALSE, io)

\* App._create_printer
create_printer_do(s, fields, button, io) ==
  LET wnd == ProfileWindow("printer", fields, button)
      s1  == [s EXCEPT !.messages = @ \o wnd.messages]
  IN  IF wnd.result_profile = None THEN s1
      ELSE IF name_exists(s1.printers, wnd.result_profile.name)
        THEN show(s1, "showerror: Profile with this name already exists.")
      ELSE LET s2 == [s1 EXCEPT !.printers = Append(@, wnd.result_profile)]
               s3 == refresh_printer_combo(save_profiles(s2, io))
               s4 == [s3 EXCEPT !.printer_combo = combo_set(@, wnd.result_profile.name)]
           IN  on_printer_selected(s4, FALSE, io)

\* App._create_plastic
create_plastic_do(s, fields, button, io) ==
  LET wnd == ProfileWindow("plastic", fields, button)
      s1  == [s EXCEPT !.messages = @ \o wnd.messages]
  IN  IF wnd.result_profile = None THEN s1
      ELSE IF name_exists(s1.plastics, wnd.result_profile.name)
        THEN show(s1, "showerror: Profile with this name already exists.")
      ELSE LET s2 == [s1 EXCEPT !.plastics = Append(@, wnd.result_profile)]
               s3 == refresh_plastic_combo(save_profiles(s2, io))
               s4 == [s3 EXCEPT !.plastic_combo = combo_set(@, wnd.result_profile.name)]
           IN  on_plastic_selected(s4, FALSE, io)

\* _edit_printer with the name checked against every profile, the edited one
\* included.
edit_printer_do_no_self(s, idx, fields, button, io) ==
  LET wnd == ProfileWindow("printer", fields, button)
      s1  == [s EXCEPT !.messages = @ \o wnd.messages,
                       !.printer_combo = combo_queried(@)]
  IN  IF wnd.result_profile = None THEN s1
      ELSE IF name_exists(s1.printers, wnd.result_profile.name)
        THEN show(s1, "showerror: Profile with this name already exists.")
      ELSE LET s2 == [s1 EXCEPT !.printers[idx] = wnd.result_profile]
               s3 == refresh_printer_combo(save_profiles(s2, io))
               s4 == [s3 EXCEPT !.printer_combo = combo_set(@, wnd.result_profile.name)]
           IN  on_printer_selected(s4, FALSE, io)

\* App._edit_printer, once a printer is selected (idx > 0)
edit_printer_do(s, idx, fields, button, io) ==
  LET wnd == ProfileWindow("printer", fields, button)
      s1  == [s EXCEPT !.messages = @ \o wnd.messages,
                       !.printer_combo = combo_queried(@)]
  IN  IF wnd.result_profile = None THEN s1
      ELSE IF name_exists_except(s1.printers, wnd.result_profile.name, idx)
        THEN show(s1, "showerror: Profile with this name already exists.")
      ELSE LET s2 == [s1 EXCEPT !.printers[idx] = wnd.result_profile]
               s3 == refresh_printer_combo(save_profiles(s2, io))
               s4 == [s3 EXCEPT !.printer_combo = combo_set(@, wnd.result_profile.name)]
           IN  on_printer_selected(s4, FALSE, io)

\* App._edit_plastic, once a plastic is selected (idx > 0)
edit_plastic_do(s, idx, fields, button, io) ==
  LET wnd == ProfileWindow("plastic", fields, button)
      s1  == [s EXCEPT !.messages = @ \o wnd.messages,
                       !.plastic_combo = combo_queried(@)]
  IN  IF wnd.result_profile = None THEN s1
      ELSE IF name_exists_except(s1.plastics, wnd.result_profile.name, idx)
        THEN show(s1, "showerror: Profile with this name already exists.")
      ELSE LET s2 == [s1 EXCEPT !.plastics[idx] = wnd.result_profile]
               s3 == refresh_plastic_combo(save_profiles(s2, io))
               s4 == [s3 EXCEPT !.plastic_combo = combo_set(@, wnd.result_profile.name)]
           IN  on_plastic_selected(s4, FALSE, io)

\* The "Clear last selected if it was the deleted one" step of _delete_printer.
clear_last_selected_printer(s) ==
  IF s.current_printer # None
     /\ s.current_printer.name = s.settings.last_selected_printer
    THEN [s EXCEPT !.settings.last_selected_printer = <<>>]
    ELSE s

clear_last_selected_plastic(s) ==
  IF s.current_plastic # None
     /\ s.current_plastic.name = s.settings.last_selected_plastic
    THEN [s EXCEPT !.settings.last_selected_plastic = <<>>]
    ELSE s

\* _delete_printer without the refresh of the selector at its end.
delete_printer_do_no_refresh(s, idx, answer, io) ==
  LET s1 == show([s EXCEPT !.printer_combo = combo_queried(@)],
                 "askyesno: Delete selected printer profile?")
  IN  IF ~answer THEN s1
      ELSE LET s2 == [s1 EXCEPT !.printers = Remove(@, idx)]
               s3 == clear_last_selected_printer(s2)
           IN  save_profiles(s3, io)

\* App._delete_printer, once a printer is selected (idx > 0); answer is askyesno's.
delete_printer_do(s, idx, answer, io) ==
  LET s1 == show([s EXCEPT !.printer_combo = combo_queried(@)],
                 "askyesno: Delete selected printer profile?")
  IN  IF ~answer THEN s1
      ELSE LET s2 == [s1 EXCEPT !.printers = Remove(@, idx)]
               s3 == clear_last_selected_printer(s2)
           IN  refresh_printer_combo(save_profiles(s3, io))

\* App._delete_plastic, once a plastic is selected (idx > 0)
delete_plastic_do(s, idx, answer, io) ==
  LET s1 == show([s EXCEPT !.plastic_combo = combo_queried(@)],
                 "askyesno: Delete selected plastic profile?")
  IN  IF ~answer THEN s1
      ELSE LET s2 == [s1 EXCEPT !.plastics = Remove(@, idx)]
               s3 == clear_last_selected_plastic(s2)
           IN  refresh_plastic_combo(save_profiles(s3, io))

\* The merge with an imported profile put in the place of the profile of its
\* name, if there is one.
RECURSIVE merge_profiles_replacing(_, _)
merge_profiles_replacing(existing, imported) ==
  IF imported = <<>> THEN existing
  ELSE merge_profiles_replacing(
         IF name_exists(existing, Head(imported).name)
           THEN [i \in 1..Len(existing) |->
                   IF existing[i].name = Head(imported).name
                     THEN Head(imported) ELSE existing[i]]
           ELSE Append(existing, Head(imported)),
         Tail(imported))

\* The merge with each imported profile compared with the profiles that were in
\* the store before the import only.
merge_profiles_against_original(existing, imported) ==
  existing \o SelectSeq(imported, LAMBDA p : ~name_exists(existing, p.name))

\* "for p in imported: if not any(existing.name == p.name ...): append(p)"
RECURSIVE merge_profiles(_, _)
merge_profiles(existing, imported) ==
  IF imported = <<>> THEN existing
  ELSE merge_profiles(
         IF name_exists(existing, Head(imported).name)
           THEN existing
           ELSE Append(existing, Head(imported)),
         Tail(imported))

\* App._import_config with the chosen file's content.  The settings are assigned
\* as they are read; an exception abandons the rest of the handler.
import_config_do(s, file, io) ==
  IF file.kind # "json"
    THEN show(s, "showerror: Failed to import configuration")
  ELSE
    LET data == file.data
        elec == IF "electricity_cost_default" \in DOMAIN data
                  THEN py_float(data["electricity_cost_default"])
                  ELSE Parsed(s.settings.electricity_cost_default)
        s1   == [s EXCEPT !.settings.electricity_cost_default = elec.v]
        marg == IF "margin_default" \in DOMAIN data
                  THEN py_float(data["margin_default"])
                  ELSE Parsed(s.settings.margin_default)
        s2   == [s1 EXCEPT !.settings.margin_default = marg.v]
        s3   == [s2 EXCEPT
                   !.settings.last_selected_printer =
                      IF "last_selected_printer" \in DOMAIN data
                        THEN data["last_selected_printer"].s ELSE @,
                   !.settings.last_selected_plastic =
                      IF "last_selected_plastic" \in DOMAIN data
                        THEN data["last_selected_plastic"].s ELSE @]
        prs  == printers_from(data)
        pls  == plastics_from(data)
    IN  IF ~elec.ok THEN show(s, "showerror: Failed to import configuration")
        ELSE IF ~marg.ok THEN show(s1, "showerror: Failed to import configuration")
        ELSE IF ~prs.ok \/ ~pls.ok
          THEN show(s3, "showerror: Failed to import configuration")
        ELSE
          LET s4 == [s3 EXCEPT !.printers = merge_profiles(@, prs.v),
                               !.plastics = merge_profiles(@, pls.v)]
              s5 == refresh_plastic_combo(refresh_printer_combo(save_profiles(s4, io)))
          IN  show(s5, "showinfo: Configuration imported successfully.")

\* The document App._export_config writes: the last-selected names are brought
\* up to date first.
export_document(s) ==
  config_document(update_last_selected(s).settings, s.printers, s.plastics)

\* An export that moves the profiles out of the store into the file.
export_config_do_moving(s, chosen, io) ==
  IF ~chosen THEN s
  ELSE IF io = "ok"
    THEN show([s EXCEPT !.printers = <<>>, !.plastics = <<>>],
              "showinfo: Configuration exported successfully.")
    ELSE show(s, "showerror: Failed to export configuration")

\* App._export_config: chosen is whether the save dialog returned a path.
export_config_do(s, chosen, io) ==
  IF ~chosen THEN s
  ELSE IF io = "ok"
    THEN show(update_last_selected(s), "showinfo: Configuration exported successfully.")
    ELSE show(update_last_selected(s), "showerror: Failed to export configuration")

\* The content of the chosen file once App._export_config has returned; `old` is
\* its content before.
exported_file(s, old, chosen, io) ==
  IF ~chosen THEN old
  ELSE CASE io = "ok" -> JsonFile(export_document(s))
         [] io = "unwritable" -> old
         [] io = "partial" -> Malformed


(***************************************************************************)
(* The settings dialog (SettingsWindow) and App._open_settings.            *)
(***************************************************************************)
SettingsWindow_populate(st) ==
  [electricity_cost_default |-> float_repr(st.electricity_cost_default),
   margin_default |-> float_repr(st.margin_default)]

\* What the settings dialog hands back: the two numbers when Save was pressed
\* and both fields parse, None when it was cancelled or the Save was refused.
SettingsWindow_result(fields, button) ==
  IF /\ button = "save"
     /\ float_str(strip(replace_comma(fields.electricity_cost_default))).ok
     /\ float_str(strip(replace_comma(fields.margin_default))).ok
    THEN [electricity_cost_default |->
            float_str(strip(replace_comma(fields.electricity_cost_default))).v,
          margin_default |-> float_str(strip(replace_comma(fields.margin_default))).v]
    ELSE None

\* _on_save assigning each field as soon as it is parsed.
SettingsWindow_on_save_eager(s, fields) ==
  IF ~float_str(strip(replace_comma(fields.electricity_cost_default))).ok
    THEN show(s, "showerror: Please enter valid numeric values.")
  ELSE IF ~float_str(strip(replace_comma(fields.margin_default))).ok
    THEN show([s EXCEPT !.settings.electricity_cost_default =
                 float_str(strip(replace_comma(fields.electricity_cost_default))).v],
              "showerror: Please enter valid numeric values.")
  ELSE [s EXCEPT !.settings.electricity_cost_default =
                   float_str(strip(replace_comma(fields.electricity_cost_default))).v,
                 !.settings.margin_default =
                   float_str(strip(replace_comma(fields.margin_default))).v]

\* SettingsWindow._on_save: both fields parse, or nothing is assigned.
SettingsWindow_on_save(s, fields) ==
  LET elec == float_str(strip(replace_comma(fields.electricity_cost_default)))
      marg == float_str(strip(replace_comma(fields.margin_default)))
  IN  IF elec.ok /\ marg.ok
        THEN [s EXCEPT !.settings.electricity_cost_default = elec.v,
                       !.settings.margin_default = marg.v]
        ELSE show(s, "showerror: Please enter valid numeric values.")

\* App._open_settings: the dialog, then the configuration is saved in any case.
open_settings_do(s, fields, button, io) ==
  save_profiles(IF button = "save" THEN SettingsWindow_on_save(s, fields) ELSE s, io)

(***************************************************************************)
(* The pricing calculation (App._calculate).                               *)
(***************************************************************************)
\* The costs with the electricity taken per watt-hour (power not divided by 1000)
\* and the margin applied as a plain factor margin/100.
costs_unscaled(printer, plastic, st, weight, time, extra) ==
  [amort |-> RMul(printer.amortization, time),
   elec |-> RMul(RMul(printer.power, time), st.electricity_cost_default),
   plastic_cost |-> RMul(RDiv(weight, RInt(1000)), plastic.plastic_cost),
   base_price |->
     RAdd(RAdd(RAdd(RMul(printer.amortization, time),
                    RMul(RMul(printer.power, time), st.electricity_cost_default)),
               RMul(RDiv(weight, RInt(1000)), plastic.plastic_cost)), extra),
   price_with_margin |->
     RMul(RAdd(RAdd(RAdd(RMul(printer.amortization, time),
                         RMul(RMul(printer.power, time), st.electricity_cost_default)),
                    RMul(RDiv(weight, RInt(1000)), plastic.plastic_cost)), extra),
          RDiv(st.margin_default, RInt(100)))]

\* The "Calculations" block of _calculate.
costs(printer, plastic, st, weight, time, extra) ==
  LET power_kw          == RDiv(printer.power, RInt(1000))
      elec_cost         == st.electricity_cost_default
      margin            == RDiv(st.margin_default, RInt(100))
      amort             == RMul(printer.amortization, time)
      elec              == RMul(RMul(power_kw, time), elec_cost)
      plastic_cost      == RMul(RDiv(weight, RInt(1000)), plastic.plastic_cost)
      base_price        == RAdd(RAdd(RAdd(amort, elec), plastic_cost), extra)
      price_with_margin == RMul(base_price, RAdd(RInt(1), margin))
  IN  [amort |-> amort, elec |-> elec, plastic_cost |-> plastic_cost,
       base_price |-> base_price, price_with_margin |-> price_with_margin]

\* The final price rounded to 2 decimals whatever the checkbox says.
final_price_unflagged(price_with_margin, round_flag) == round2(price_with_margin)

\* "if self.round_var.get(): ... else: ..." of _calculate.
final_price(price_with_margin, round_flag) ==
  IF round_flag
    THEN RInt(custom_round(price_with_margin))
    ELSE round2(price_with_margin)

\* The values _calculate writes to the Results box.
result_of(printer, plastic, st, weight, time, extra, c, final) ==
  [printer |-> printer.name, plastic |-> plastic.name,
   weight |-> weight, time |-> time, extra |-> extra,
   amort |-> c.amort, elec |-> c.elec, plastic_cost |-> c.plastic_cost,
   base_price |-> c.base_price, margin_default |-> st.margin_default,
   price_with_margin |-> c.price_with_margin, final_price |-> final]

price_breakdown(printer, plastic, st, weight, time, extra, round_flag) ==
  result_of(printer, plastic, st, weight, time, extra,
            costs(printer, plastic, st, weight, time, extra),
            final_price(costs(printer, plastic, st, weight, time, extra).price_with_margin,
                        round_flag))

\* _calculate rounding by whether a result is already displayed instead of by
\* the checkbox.
calculate_do_by_display(printer, plastic, st, entries, round_flag, shown) ==
  LET weight == float_str(replace_comma(entries.weight))
      time   == float_str(replace_comma(entries.time))
      extra  == float_str(replace_comma(entries.extra))
  IN  IF printer = None
        THEN <<shown, <<"showwarning: Select a printer profile first.">>>>
      ELSE IF plastic = None
        THEN <<shown, <<"showwarning: Select a plastic profile first.">>>>
      ELSE IF ~(weight.ok /\ time.ok /\ extra.ok)
        THEN <<shown, <<"showerror: Invalid numeric input.">>>>
      ELSE <<price_breakdown(printer, plastic, st, weight.v, time.v, extra.v, shown # None),
             <<>>>>

\* _calculate clearing the Results box before it validates the entries.
calculate_do_clearing(printer, plastic, st, entries, round_flag, shown) ==
  LET weight == float_str(replace_comma(entries.weight))
      time   == float_str(replace_comma(entries.time))
      extra  == float_str(replace_comma(entries.extra))
  IN  IF printer = None
        THEN <<shown, <<"showwarning: Select a printer profile first.">>>>
      ELSE IF plastic = None
        THEN <<shown, <<"showwarning: Select a plastic profile first.">>>>
      ELSE IF ~(weight.ok /\ time.ok /\ extra.ok)
        THEN <<None, <<"showerror: Invalid numeric input.">>>>
      ELSE <<price_breakdown(printer, plastic, st, weight.v, time.v, extra.v, round_flag),
             <<>>>>

\* App._calculate: <<the Results box, the message boxes shown>>.
calculate_do(printer, plastic, st, entries, round_flag, shown) ==
  LET weight == float_str(replace_comma(entries.weight))
      time   == float_str(replace_comma(entries.time))
      extra  == float_str(replace_comma(entries.extra))
  IN  IF printer = None
        THEN <<shown, <<"showwarning: Select a printer profile first.">>>>
      ELSE IF plastic = None
        THEN <<shown, <<"showwarning: Select a plastic profile first.">>>>
      ELSE IF ~(weight.ok /\ time.ok /\ extra.ok)
        THEN <<shown, <<"showerror: Invalid numeric input.">>>>
      ELSE <<price_breakdown(printer, plastic, st, weight.v, time.v, extra.v, round_flag),
             <<>>>>


(***************************************************************************)
(* The settings.json variant (src/app.py).  Its profile classes, its       *)
(* ProfileWindow, custom_round and _calculate are those of the config.json *)
(* variant; its Settings, its profile store and its settings dialog differ *)
(* and are defined here.  The state of its handlers is a record with the   *)
(* fields settings, printers, plastics, current_printer, current_plastic,  *)
(* printer_combo, plastic_combo, settings_file, profile_files, messages.   *)
(***************************************************************************)
PROFILES_FILE == <<"p", "r", "o", "f", "i", "l", "e", "s", ".", "j", "s", "o", "n">>

\* Another file the user keeps profiles in.
OtherProfilesFile == <<"b", ".", "j", "s", "o", "n">>

\* The paths of profile files.
AppPaths == {PROFILES_FILE, OtherProfilesFile}

\* Settings.__init__ (src/app.py)
app_Settings_init ==
  [electricity_cost_default |-> RInt(0), margin_default |-> RInt(0),
   profiles_path |-> PROFILES_FILE]

\* Settings.load (src/app.py): the three fields are assigned in order; a float()
\* that raises leaves the later ones.
app_Settings_load(s) ==
  IF s.settings_file.kind = "nofile" THEN s
  ELSE IF s.settings_file.kind = "malformed"
    THEN show(s, "showerror: Failed to load settings")
  ELSE
    LET data == s.settings_file.data
        elec == py_float(get(data, "electricity_cost_default", JNum(RInt(0))))
        marg == py_float(get(data, "margin_default", JNum(RInt(0))))
        path == get(data, "profiles_path", JStr(PROFILES_FILE))
    IN  IF ~elec.ok THEN show(s, "showerror: Failed to load settings")
        ELSE IF ~marg.ok
          THEN show([s EXCEPT !.settings.electricity_cost_default = elec.v],
                    "showerror: Failed to load settings")
        ELSE [s EXCEPT !.settings.electricity_cost_default = elec.v,
                       !.settings.margin_default = marg.v,
                       !.settings.profiles_path = path.s]

\* The document Settings.save writes to settings.json.
settings_document(st) ==
  [electricity_cost_default |-> JNum(st.electricity_cost_default),
   margin_default |-> JNum(st.margin_default),
   profiles_path |-> JStr(st.profiles_path)]

\* Settings.save (src/app.py)
app_Settings_save(s, io) ==
  CASE io = "ok" -> [s EXCEPT !.settings_file = JsonFile(settings_document(s.settings))]
    [] io = "unwritable" -> show(s, "showerror: Failed to save settings")
    [] io = "partial" ->
         show([s EXCEPT !.settings_file = Malformed], "showerror: Failed to save settings")

\* The document _save_profiles, _export_profiles and _ask_profiles_path write.
profiles_document(prs, pls) ==
  [printers |-> [i \in 1..Len(prs) |-> PrinterProfile_to_dict(prs[i])],
   plastics |-> [i \in 1..Len(pls) |-> PlasticProfile_to_dict(pls[i])]]

\* _save_profiles writing to the default file whatever settings.profiles_path is.
app_save_profiles_to_default(s, io) ==
  CASE io = "ok" ->
         [s EXCEPT !.profile_files[PROFILES_FILE] =
                      JsonFile(profiles_document(s.printers, s.plastics))]
    [] io = "unwritable" -> show(s, "showerror: Failed to save profiles")
    [] io = "partial" ->
         show([s EXCEPT !.profile_files[PROFILES_FILE] = Malformed],
              "showerror: Failed to save profiles")

\* App._save_profiles (src/app.py)
app_save_profiles(s, io) ==
  CASE io = "ok" ->
         [s EXCEPT !.profile_files[s.settings.profiles_path] =
                      JsonFile(profiles_document(s.printers, s.plastics))]
    [] io = "unwritable" -> show(s, "showerror: Failed to save profiles")
    [] io = "partial" ->
         show([s EXCEPT !.profile_files[s.settings.profiles_path] = Malformed],
              "showerror: Failed to save profiles")

\* App._on_printer_selected / _on_plastic_selected (src/app.py): nothing is saved.
app_on_printer_selected(s) ==
  LET idx == combo_current(s.printer_combo)
      s1  == [s EXCEPT !.printer_combo = combo_queried(@)]
  IN  IF idx \in 1..Len(s1.printers)
        THEN [s1 EXCEPT !.current_printer = s1.printers[idx]]
        ELSE s1

app_on_plastic_selected(s) ==
  LET idx == combo_current(s.plastic_combo)
      s1  == [s EXCEPT !.plastic_combo = combo_queried(@)]
  IN  IF idx \in 1..Len(s1.plastics)
        THEN [s1 EXCEPT !.current_plastic = s1.plastics[idx]]
        ELSE s1

\* App._refresh_printer_combo / _refresh_plastic_combo (src/app.py): the first
\* item is selected.
app_refresh_printer_combo(s) ==
  LET names == names_of(s.printers)
      s1    == [s EXCEPT !.printer_combo.values = names]
  IN  IF names # <<>>
        THEN app_on_printer_selected([s1 EXCEPT !.printer_combo = combo_select(@, 1)])
        ELSE [s1 EXCEPT !.printer_combo = combo_set(@, <<>>), !.current_printer = None]

app_refresh_plastic_combo(s) ==
  LET names == names_of(s.plastics)
      s1    == [s EXCEPT !.plastic_combo.values = names]
  IN  IF names # <<>>
        THEN app_on_plastic_selected([s1 EXCEPT !.plastic_combo = combo_select(@, 1)])
        ELSE [s1 EXCEPT !.plastic_combo = combo_set(@, <<>>), !.current_plastic = None]

\* The lists _load_profiles assigns: those of the file at settings.profiles_path,
\* both empty when the file is missing or cannot be loaded.
app_read_profiles(s) ==
  LET file == s.profile_files[s.settings.profiles_path]
  IN  IF file.kind = "nofile" THEN [s EXCEPT !.printers = <<>>, !.plastics = <<>>]
      ELSE IF file.kind = "malformed"
                \/ ~printers_from(file.data).ok \/ ~plastics_from(file.data).ok
        THEN show([s EXCEPT !.printers = <<>>, !.plastics = <<>>],
                  "showerror: Failed to load profiles")
      ELSE [s EXCEPT !.printers = printers_from(file.data).v,
                     !.plastics = plastics_from(file.data).v]

\* App._load_profiles (src/app.py)
app_load_profiles(s) == app_refresh_plastic_combo(app_refresh_printer_combo(app_read_profiles(s)))

\* App._ask_profiles_path with the path the user picks in the file dialog.
app_ask_profiles_path(s, path, io) ==
  LET s1 == show(s, "showinfo: Profiles file not found")
      s2 == app_Settings_save([s1 EXCEPT !.settings.profiles_path = path], io)
  IN  [s2 EXCEPT !.profile_files[path] = JsonFile(profiles_document(<<>>, <<>>))]

\* App.__init__ (src/app.py) with the files found at launch; `path` is what the
\* user picks when asked for a profiles file.
app_startup(settings_json, files, path, io) ==
  LET s0 == [settings |-> app_Settings_init, printers |-> <<>>, plastics |-> <<>>,
             current_printer |-> None, current_plastic |-> None,
             printer_combo |-> EmptyCombo, plastic_combo |-> EmptyCombo,
             settings_file |-> settings_json, profile_files |-> files,
             messages |-> <<>>]
      s1 == app_Settings_load(s0)
      s2 == IF s1.profile_files[s1.settings.profiles_path].kind = "nofile"
              THEN app_ask_profiles_path(s1, path, io)
              ELSE s1
  IN  app_load_profiles(s2)

\* App._create_printer / _create_plastic (src/app.py)
app_create_printer_do(s, fields, button, io) ==
  LET wnd == ProfileWindow("printer", fields, button)
      s1  == [s EXCEPT !.messages = @ \o wnd.messages]
  IN  IF wnd.result_profile = None THEN s1
      ELSE IF name_exists(s1.printers, wnd.result_profile.name)
        THEN show(s1, "showerror: Profile with this name already exists.")
      ELSE LET s2 == [s1 EXCEPT !.printers = Append(@, wnd.result_profile)]
               s3 == app_refresh_printer_combo(app_save_profiles(s2, io))
               s4 == [s3 EXCEPT !.printer_combo = combo_set(@, wnd.result_profile.name)]
           IN  app_on_printer_selected(s4)

app_create_plastic_do(s, fields, button, io) ==
  LET wnd == ProfileWindow("plastic", fields, button)
      s1  == [s EXCEPT !.messages = @ \o wnd.messages]
  IN  IF wnd.result_profile = None THEN s1
      ELSE IF name_exists(s1.plastics, wnd.result_profile.name)
        THEN show(s1, "showerror: Profile with this name already exists.")
      ELSE LET s2 == [s1 EXCEPT !.plastics = Append(@, wnd.result_profile)]
               s3 == app_refresh_plastic_combo(app_save_profiles(s2, io))
               s4 == [s3 EXCEPT !.plastic_combo = combo_set(@, wnd.result_profile.name)]
           IN  app_on_plastic_selected(s4)

\* App._edit_printer (src/app.py), once a printer is selected (idx > 0)
app_edit_printer_do(s, idx, fields, button, io) ==
  LET wnd == ProfileWindow("printer", fields, button)
      s1  == [s EXCEPT !.messages = @ \o wnd.messages,
                       !.printer_combo = combo_queried(@)]
  IN  IF wnd.result_profile = None THEN s1
      ELSE IF name_exists_except(s1.printers, wnd.result_profile.name, idx)
        THEN show(s1, "showerror: Profile with this name already exists.")
      ELSE LET s2 == [s1 EXCEPT !.printers[idx] = wnd.result_profile]
               s3 == app_refresh_printer_combo(app_save_profiles(s2, io))
               s4 == [s3 EXCEPT !.printer_combo = combo_set(@, wnd.result_profile.name)]
           IN  app_on_printer_selected(s4)

\* App._delete_printer / _delete_plastic (src/app.py), once a profile is selected
app_delete_printer_do(s, idx, answer, io) ==
  LET s1 == show([s EXCEPT !.printer_combo = combo_queried(@)],
                 "askyesno: Delete selected printer profile?")
  IN  IF ~answer THEN s1
      ELSE app_refresh_printer_combo(
             app_save_profiles([s1 EXCEPT !.printers = Remove(@, idx)], io))

app_delete_plastic_do(s, idx, answer, io) ==
  LET s1 == show([s EXCEPT !.plastic_combo = combo_queried(@)],
                 "askyesno: Delete selected plastic profile?")
  IN  IF ~answer THEN s1
      ELSE app_refresh_plastic_combo(
             app_save_profiles([s1 EXCEPT !.plastics = Remove(@, idx)], io))

\* App._import_profiles with the chosen file's content.
app_import_profiles_do(s, file, io) ==
  IF file.kind # "json" \/ ~printers_from(file.data).ok \/ ~plastics_from(file.data).ok
    THEN show(s, "showerror: Failed to import profiles")
  ELSE
    LET s1 == [s EXCEPT !.printers = merge_profiles(@, printers_from(file.data).v),
                        !.plastics = merge_profiles(@, plastics_from(file.data).v)]
        s2 == app_refresh_plastic_combo(app_refresh_printer_combo(app_save_profiles(s1, io)))
    IN  show(s2, "showinfo: Profiles imported successfully.")

\* SettingsWindow._populate_fields (src/app.py)
app_SettingsWindow_populate(st) ==
  [electricity_cost_default |-> float_repr(st.electricity_cost_default),
   margin_default |-> float_repr(st.margin_default),
   profiles_path |-> st.profiles_path]

\* What the settings dialog of src/app.py hands back: the validated values when
\* Save was pressed and accepted, None otherwise.
app_SettingsWindow_result(fields, button) ==
  IF /\ button = "save"
     /\ float_str(strip(replace_comma(fields.electricity_cost_default))).ok
     /\ float_str(strip(replace_comma(fields.margin_default))).ok
     /\ strip(fields.profiles_path) # <<>>
    THEN [electricity_cost_default |->
            float_str(strip(replace_comma(fields.electricity_cost_default))).v,
          margin_default |-> float_str(strip(replace_comma(fields.margin_default))).v,
          profiles_path |-> strip(fields.profiles_path)]
    ELSE None

\* SettingsWindow._on_save (src/app.py)
app_SettingsWindow_on_save(s, fields, io) ==
  IF \/ ~float_str(strip(replace_comma(fields.electricity_cost_default))).ok
     \/ ~float_str(strip(replace_comma(fields.margin_default))).ok
    THEN show(s, "showerror: Please enter valid numeric values.")
  ELSE IF strip(fields.profiles_path) = <<>>
    THEN show(s, "showerror: Profiles file path cannot be empty.")
  ELSE app_Settings_save(
         [s EXCEPT !.settings.electricity_cost_default =
                     float_str(strip(replace_comma(fields.electricity_cost_default))).v,
                   !.settings.margin_default =
                     float_str(strip(replace_comma(fields.margin_default))).v,
                   !.settings.profiles_path = strip(fields.profiles_path)], io)

\* App._open_settings (src/app.py): the profiles are loaded again after the
\* dialog, whatever the dialog did.
app_open_settings_do(s, fields, button, io) ==
  app_load_profiles(IF button = "save" THEN app_SettingsWindow_on_save(s, fields, io) ELSE s)


(***************************************************************************)
(* What the user types and the files the user picks.                       *)
(***************************************************************************)
\* The longest profile list a behaviour builds.
MaxProfiles == 3

\* How many handlers a behaviour runs after the program has started.
MaxOps == 3

\* What the file system does on a write.
IO == {"ok"}

\* The outcomes of a run in which writing the configuration can fail.
IOFailing == {"ok", "unwritable", "partial"}

\* How many handlers a behaviour runs when writes can fail.
MaxFaultOps == 2

Buttons == {"save", "cancel"}

\* Name field: blank only, "a", "A" (differs from "a" by case), "b" with a blank.
NameTexts == {<<" ">>, <<"a">>, <<"A", " ">>}
PowerTexts == {<<"2", "0", "0">>, <<"x">>}
AmortTexts == {}
CostTexts == {<<"x">>}
ElecTexts == {<<"0", ",", "1", "5">>}
MarginTexts == {<<"x">>}

\* The texts typed into the entries of the main window in the pricing sessions.
EntryTexts ==
  [weight |-> {<<"5", "0">>, <<"x">>},
   time   |-> {<<"2">>, <<"1", ",", "5">>},
   extra  |-> {<<"0">>, <<"1", "0", "2", "0", ",", "5">>}]

\* The largest magnitude custom_round is applied to on its own.
MaxRoundValue == 1100

PrinterA == PrinterProfile(<<"a">>, RInt(200), RInt(1))
PlasticA == PlasticProfile(<<"a">>, RInt(20))

\* A configuration the program wrote in an earlier run.
WrittenConfig ==
  JsonFile(config_document(
    [electricity_cost_default |-> Rat(15, 100), margin_default |-> RInt(10),
     last_selected_printer |-> <<"a">>, last_selected_plastic |-> <<"a">>],
    <<PrinterA>>, <<PlasticA>>))

PrinterB == PrinterProfile(<<"A">>, RInt(0), RInt(0))
PlasticB == PlasticProfile(<<"A">>, RInt(0))

\* Another one, with two profiles in each list and the second ones selected.
WrittenConfig2 ==
  JsonFile(config_document(
    [electricity_cost_default |-> RInt(0), margin_default |-> RInt(0),
     last_selected_printer |-> <<"A">>, last_selected_plastic |-> <<"A">>],
    <<PrinterA, PrinterB>>, <<PlasticA, PlasticB>>))

\* The configuration of the pricing sessions: two printers and a plastic.
CalcConfig ==
  JsonFile(config_document(
    [electricity_cost_default |-> Rat(15, 100), margin_default |-> RInt(10),
     last_selected_printer |-> <<"a">>, last_selected_plastic |-> <<"a">>],
    <<PrinterA, PrinterProfile(<<"A">>, RInt(1500), Rat(5, 2))>>, <<PlasticA>>))

\* A configuration with a printer and no plastic.
PrinterOnlyConfig ==
  JsonFile(config_document(
    [electricity_cost_default |-> Rat(15, 100), margin_default |-> RInt(10),
     last_selected_printer |-> <<"a">>, last_selected_plastic |-> <<>>],
    <<PrinterA>>, <<>>))

\* A configuration someone edited by hand: the margin is not a number.
BadMarginConfig ==
  JsonFile([electricity_cost_default |-> JNum(Rat(15, 100)),
            margin_default |-> JStr(<<"x">>),
            last_selected_printer |-> JStr(<<"a">>),
            last_selected_plastic |-> JStr(<<"a">>),
            printers |-> <<PrinterProfile_to_dict(PrinterA)>>,
            plastics |-> <<PlasticProfile_to_dict(PlasticA)>>])

\* A configuration without the settings keys, its profiles without the numeric
\* keys, and a last-selected name that no profile has.
SparseConfig ==
  JsonFile([last_selected_printer |-> JStr(<<"z">>),
            printers |-> << [name |-> JStr(<<"b">>)], [name |-> JStr(<<"c">>)] >>,
            plastics |-> << [name |-> JStr(<<"b">>)] >>])

\* The longest behaviour from the launch of the program: the construction of the
\* window and the handlers after it.
MaxStartupOps == 2

\* The configuration file the program finds when it starts: none (the first
\* run), or one it wrote.
StartFiles == {NoFile, WrittenConfig, WrittenConfig2}

EmptyObject == [k \in {} |-> k]

\* Files the user may pick for import.
ImportFiles ==
  { Malformed,
    JsonFile(EmptyObject),
    \* two printers of one name, a printer without a name, a last-selected name
    JsonFile([last_selected_printer |-> JStr(<<"A">>),
              printers |-> << [name |-> JStr(<<"A">>), power |-> JNum(RInt(200))],
                              [name |-> JStr(<<"A">>), power |-> JNum(RInt(0))],
                              [power |-> JNum(RInt(0))] >>,
              plastics |-> << [name |-> JStr(<<"A">>), plastic_cost |-> JStr(<<"2", "0">>)] >>]),
    \* a non-numeric margin after a numeric electricity cost
    JsonFile([electricity_cost_default |-> JNum(RInt(0)),
              margin_default |-> JStr(<<"x">>)]),
    \* a non-numeric attribute in a profile
    JsonFile([last_selected_plastic |-> JStr(<<"A">>),
              plastics |-> << [name |-> JStr(<<"A">>), plastic_cost |-> JStr(<<"x">>)] >>]) }

(***************************************************************************)
(* Actions: one per handler.                                               *)
(***************************************************************************)
StoreFrame == UNCHANGED <<entries_input, round_var, result_text, value, rounded,
                 candidates, config_dir, config_file_path, io_outcomes,
                 settings_file, profile_files, export_file>>

\* The window is open.
Running == ~closed

\* What the user may do in a profile dialog opened on `profile` (None: a new
\* one): cancel it, or press Save with each field as populated or retyped.
PrinterDialogs(profile) ==
  {[button |-> "cancel", fields |-> populate_printer(profile)]}
  \cup {[button |-> "save",
         fields |-> [name |-> name, power |-> power, amortization |-> amort]] :
          name \in NameTexts \cup {populate_printer(profile).name},
          power \in PowerTexts \cup {populate_printer(profile).power},
          amort \in AmortTexts \cup {populate_printer(profile).amortization}}

PlasticDialogs(profile) ==
  {[button |-> "cancel", fields |-> populate_plastic(profile)]}
  \cup {[button |-> "save", fields |-> [name |-> name, plastic_cost |-> cost]] :
          name \in NameTexts \cup {populate_plastic(profile).name},
          cost \in CostTexts \cup {populate_plastic(profile).plastic_cost}}

SettingsDialogs(st) ==
  {[button |-> "cancel", fields |-> SettingsWindow_populate(st)]}
  \cup {[button |-> "save",
         fields |-> [electricity_cost_default |-> elec, margin_default |-> marg]] :
          elec \in ElecTexts \cup {SettingsWindow_populate(st).electricity_cost_default},
          marg \in MarginTexts \cup {SettingsWindow_populate(st).margin_default}}

CalcSettingsDialogs(st) ==
  {[button |-> "cancel", fields |-> SettingsWindow_populate(st)]}
  \cup {[button |-> "save",
         fields |-> [electricity_cost_default |-> elec, margin_default |-> marg]] :
          elec \in {<<"2">>, SettingsWindow_populate(st).electricity_cost_default},
          marg \in {<<"x">>, SettingsWindow_populate(st).margin_default}}

create_printer ==
  /\ Running
  /\ \E dlg \in PrinterDialogs(None), io \in io_outcomes :
       /\ Len(printers) < MaxProfiles
       /\ Commit(create_printer_do(self, dlg.fields, dlg.button, io), "_create_printer")
       /\ request' = Request(0, ProfileWindow("printer", dlg.fields, dlg.button).result_profile,
                             FALSE)
  /\ UNCHANGED closed
  /\ StoreFrame

create_plastic ==
  /\ Running
  /\ \E dlg \in PlasticDialogs(None), io \in io_outcomes :
       /\ Len(plastics) < MaxProfiles
       /\ Commit(create_plastic_do(self, dlg.fields, dlg.button, io), "_create_plastic")
       /\ request' = Request(0, ProfileWindow("plastic", dlg.fields, dlg.button).result_profile,
                             FALSE)
  /\ UNCHANGED closed
  /\ StoreFrame

edit_printer ==
  /\ Running
  /\ IF combo_current(printer_combo) = 0
       THEN /\ Commit(show([self EXCEPT !.printer_combo = combo_queried(@)],
                           "showwarning: No printer selected."), "_edit_printer")
            /\ request' = Request(0, None, FALSE)
       ELSE \E dlg \in PrinterDialogs(printers[combo_current(printer_combo)]), io \in io_outcomes :
              /\ Commit(edit_printer_do(self, combo_current(printer_combo),
                                        dlg.fields, dlg.button, io), "_edit_printer")
              /\ request' = Request(combo_current(printer_combo),
                                    ProfileWindow("printer", dlg.fields, dlg.button).result_profile,
                                    FALSE)
  /\ UNCHANGED closed
  /\ StoreFrame

edit_plastic ==
  /\ Running
  /\ IF combo_current(plastic_combo) = 0
       THEN /\ Commit(show([self EXCEPT !.plastic_combo = combo_queried(@)],
                           "showwarning: No plastic selected."), "_edit_plastic")
            /\ request' = Request(0, None, FALSE)
       ELSE \E dlg \in PlasticDialogs(plastics[combo_current(plastic_combo)]), io \in io_outcomes :
              /\ Commit(edit_plastic_do(self, combo_current(plastic_combo),
                                        dlg.fields, dlg.button, io), "_edit_plastic")
              /\ request' = Request(combo_current(plastic_combo),
                                    ProfileWindow("plastic", dlg.fields, dlg.button).result_profile,
                                    FALSE)
  /\ UNCHANGED closed
  /\ StoreFrame

delete_printer ==
  /\ Running
  /\ LET idx == combo_current(printer_combo)
     IN  IF idx = 0
           THEN /\ Commit(show([self EXCEPT !.printer_combo = combo_queried(@)],
                               "showwarning: No printer selected."), "_delete_printer")
                /\ request' = Request(0, None, FALSE)
           ELSE \E answer \in BOOLEAN, io \in io_outcomes :
                  /\ Commit(delete_printer_do(self, idx, answer, io), "_delete_printer")
                  /\ request' = Request(idx, None, answer)
  /\ UNCHANGED closed
  /\ StoreFrame

delete_plastic ==
  /\ Running
  /\ LET idx == combo_current(plastic_combo)
     IN  IF idx = 0
           THEN /\ Commit(show([self EXCEPT !.plastic_combo = combo_queried(@)],
                               "showwarning: No plastic selected."), "_delete_plastic")
                /\ request' = Request(0, None, FALSE)
           ELSE \E answer \in BOOLEAN, io \in io_outcomes :
                  /\ Commit(delete_plastic_do(self, idx, answer, io), "_delete_plastic")
                  /\ request' = Request(idx, None, answer)
  /\ UNCHANGED closed
  /\ StoreFrame

\* The user picks item i of the printer selector: tk sets it and raises
\* <<ComboboxSelected>>, which runs _on_printer_selected(event).
printer_selected ==
  /\ Running
  /\ \E i \in 1..Len(printer_combo.values), io \in io_outcomes :
       /\ Commit(on_printer_selected(
                   [self EXCEPT !.printer_combo = combo_select(@, i)], TRUE, io),
                 "_on_printer_selected")
       /\ request' = Request(i, None, FALSE)
  /\ UNCHANGED closed
  /\ StoreFrame

plastic_selected ==
  /\ Running
  /\ \E i \in 1..Len(plastic_combo.values), io \in io_outcomes :
       /\ Commit(on_plastic_selected(
                   [self EXCEPT !.plastic_combo = combo_select(@, i)], TRUE, io),
                 "_on_plastic_selected")
       /\ request' = Request(i, None, FALSE)
  /\ UNCHANGED closed
  /\ StoreFrame

\* App._import_config on one of `files`, the files the open dialog shows.
import_config_of(files) ==
  /\ Running
  /\ \E file \in files, io \in io_outcomes :
       /\ Len(import_config_do(self, file, io).printers) <= MaxProfiles
       /\ Len(import_config_do(self, file, io).plastics) <= MaxProfiles
       /\ Commit(import_config_do(self, file, io), "_import_config")
       /\ request' = Request(0, file, FALSE)
  /\ UNCHANGED closed
  /\ StoreFrame

import_config == import_config_of(ImportFiles)

\* App._import_config where the exported file, once there is one, is among the
\* files to pick.
import_config_picked == import_config_of((ImportFiles \cup {export_file}) \ {NoFile})

\* App._export_config: the user cancels the save dialog or names the file.
export_config ==
  /\ Running
  /\ \E chosen \in BOOLEAN, io \in io_outcomes :
       /\ Commit(export_config_do(self, chosen, io), "_export_config")
       /\ export_file' = exported_file(self, export_file, chosen, io)
       /\ request' = Request(0, None, chosen)
  /\ UNCHANGED <<closed, entries_input, round_var, result_text, value, rounded,
                 candidates, config_dir, config_file_path, io_outcomes,
                 settings_file, profile_files>>

open_settings ==
  /\ Running
  /\ \E dlg \in SettingsDialogs(settings), io \in io_outcomes :
       /\ Commit(open_settings_do(self, dlg.fields, dlg.button, io), "_open_settings")
       /\ request' = Request(0, SettingsWindow_result(dlg.fields, dlg.button), FALSE)
  /\ UNCHANGED closed
  /\ StoreFrame

\* App._on_closing: the selections are saved and the window is destroyed.
on_closing ==
  /\ Running
  /\ \E io \in io_outcomes : Commit(save_profiles(self, io), "_on_closing")
  /\ request' = Request(0, None, FALSE)
  /\ closed' = TRUE
  /\ StoreFrame

\* The user types `text` into one of the three entries of the main window.
type_input ==
  /\ Running
  /\ \E key \in {"weight", "time", "extra"} :
       \E text \in EntryTexts[key] :
         entries_input' = [entries_input EXCEPT ![key] = text]
  /\ UNCHANGED <<settings, printers, plastics, current_printer, current_plastic,
                 printer_combo, plastic_combo, round_var, result_text, config_file,
                 messages, handler, request, closed, value, rounded,
                 candidates, config_dir, config_file_path, io_outcomes,
                 settings_file, profile_files, export_file>>

\* The user ticks or unticks "Round final price".
toggle_round ==
  /\ Running
  /\ round_var' = ~round_var
  /\ UNCHANGED <<settings, printers, plastics, current_printer, current_plastic,
                 printer_combo, plastic_combo, entries_input, result_text, config_file,
                 messages, handler, request, closed, value, rounded,
                 candidates, config_dir, config_file_path, io_outcomes,
                 settings_file, profile_files, export_file>>

\* App._calculate
calculate ==
  /\ Running
  /\ result_text' = calculate_do(current_printer, current_plastic, settings,
                                 entries_input, round_var, result_text)[1]
  /\ messages' = calculate_do(current_printer, current_plastic, settings,
                              entries_input, round_var, result_text)[2]
  /\ handler' = "_calculate"
  /\ request' = Request(0, [entries |-> entries_input, round |-> round_var,
                            printer |-> current_printer, plastic |-> current_plastic,
                            settings |-> settings], FALSE)
  /\ UNCHANGED <<settings, printers, plastics, current_printer, current_plastic,
                 printer_combo, plastic_combo, entries_input, round_var, config_file,
                 closed, value, rounded,
                 candidates, config_dir, config_file_path, io_outcomes,
                 settings_file, profile_files, export_file>>

\* The settings dialog with the texts of the pricing sessions.
open_settings_calc ==
  /\ Running
  /\ \E dlg \in CalcSettingsDialogs(settings), io \in io_outcomes :
       /\ Commit(open_settings_do(self, dlg.fields, dlg.button, io), "_open_settings")
       /\ request' = Request(0, SettingsWindow_result(dlg.fields, dlg.button), FALSE)
  /\ UNCHANGED closed
  /\ StoreFrame

\* custom_round applied to the value drawn at the start.
apply_custom_round ==
  /\ rounded = <<>>
  /\ rounded' = <<custom_round(value)>>
  /\ UNCHANGED <<settings, printers, plastics, current_printer, current_plastic,
                 printer_combo, plastic_combo, entries_input, round_var, result_text,
                 config_file, messages, handler, request, closed, ops, value,
                 candidates, config_dir, config_file_path, io_outcomes,
                 settings_file, profile_files, export_file>>

InitApp(files) ==
  /\ \E file \in files :
       /\ settings = startup(file, "ok").settings
       /\ printers = startup(file, "ok").printers
       /\ plastics = startup(file, "ok").plastics
       /\ current_printer = startup(file, "ok").current_printer
       /\ current_plastic = startup(file, "ok").current_plastic
       /\ printer_combo = startup(file, "ok").printer_combo
       /\ plastic_combo = startup(file, "ok").plastic_combo
       /\ config_file = startup(file, "ok").config_file
       /\ messages = startup(file, "ok").messages
       /\ candidates = [path \in CandidatePaths |->
                          IF path = config_path_in("~/Documents") THEN file ELSE NoFile]
  /\ config_dir = config_dir_in("~/Documents")
  /\ config_file_path = config_path_in("~/Documents")
  /\ settings_file = NoFile
  /\ profile_files = [path \in AppPaths |-> NoFile]
  /\ export_file = NoFile
  /\ handler = "__init__"
  /\ request = Request(0, None, FALSE)
  /\ closed = FALSE
  /\ ops = 0
  /\ entries_input = [weight |-> <<>>, time |-> <<>>, extra |-> <<"0">>]
  /\ round_var = FALSE
  /\ result_text = None

\* App.__init__: Settings() has resolved config_dir; load() looks for a
\* configuration, the first-run setup writes one when load() returned False, and
\* the profiles are loaded into the window.
app_init ==
  /\ handler = "__main__"
  /\ config_dir' = find_existing_config(config_dir, config_file_path, candidates).config_dir
  /\ config_file_path' =
       find_existing_config(config_dir, config_file_path, candidates).config_file_path
  /\ Commit(startup(candidates[find_existing_config(config_dir, config_file_path,
                                                    candidates).config_file_path], "ok"),
            "__init__")
  /\ request' = Request(0, None, FALSE)
  /\ entries_input' = [weight |-> <<>>, time |-> <<>>, extra |-> <<"0">>]
  /\ ops' = ops + 1
  /\ UNCHANGED <<round_var, result_text, closed, value, rounded, candidates, io_outcomes,
                 settings_file, profile_files, export_file>>

\* The program is launched again after the window was closed: App.__init__ with
\* the files as the last session left them.
relaunch ==
  /\ closed
  /\ candidates' = [candidates EXCEPT ![config_file_path] = config_file]
  /\ \E documents_ok \in BOOLEAN :
       LET dir   == get_config_directory(documents_ok)
           found == find_existing_config(dir, Append(dir, CONFIG_FILE), candidates')
       IN  /\ config_dir' = found.config_dir
           /\ config_file_path' = found.config_file_path
           /\ Commit(startup(candidates'[found.config_file_path], "ok"), "__init__")
  /\ request' = Request(0, None, FALSE)
  /\ closed' = FALSE
  /\ entries_input' = [weight |-> <<>>, time |-> <<>>, extra |-> <<"0">>]
  /\ round_var' = FALSE
  /\ result_text' = None
  /\ UNCHANGED <<value, rounded, io_outcomes, settings_file, profile_files, export_file>>

\* A handler run within the bound on the length of a behaviour.
Bounded(A) == ops < MaxOps /\ A /\ ops' = ops + 1

\* A handler run in a session that is not bounded in length.
Free(A) == A /\ UNCHANGED ops

(***************************************************************************)
(* Spec: the profile store of the config.json variant.  The program starts *)
(* on one of StartFiles and the user runs up to MaxOps handlers.           *)
(***************************************************************************)
Init ==
  /\ InitApp(StartFiles)
  /\ io_outcomes = IO
  /\ value = RInt(0)
  /\ rounded = <<>>

Next ==
  \/ Bounded(create_printer)
  \/ Bounded(create_plastic)
  \/ Bounded(edit_printer)
  \/ Bounded(edit_plastic)
  \/ Bounded(delete_printer)
  \/ Bounded(delete_plastic)
  \/ Bounded(printer_selected)
  \/ Bounded(plastic_selected)
  \/ Bounded(import_config)
  \/ Bounded(open_settings)
  \/ Bounded(on_closing)

Spec == Init /\ [][Next]_vars

(***************************************************************************)
(* SpecExport: the profile store with export, and with the exported file   *)
(* among the files to import.                                              *)
(***************************************************************************)
NextExport ==
  \/ Bounded(create_printer)
  \/ Bounded(create_plastic)
  \/ Bounded(delete_printer)
  \/ Bounded(printer_selected)
  \/ Bounded(plastic_selected)
  \/ Bounded(open_settings)
  \/ Bounded(export_config)
  \/ Bounded(import_config_picked)

SpecExport == Init /\ [][NextExport]_vars

(***************************************************************************)
(* SpecCalc: pricing sessions.  The program starts on CalcConfig, on a     *)
(* store without plastics or on no configuration at all; the user          *)
(* types into the entries, ticks the checkbox, picks profiles, changes the *)
(* settings and presses Calculate, in any order and any number of times.   *)
(***************************************************************************)
InitCalc ==
  /\ InitApp({CalcConfig, PrinterOnlyConfig, NoFile})
  /\ io_outcomes = IO
  /\ value = RInt(0)
  /\ rounded = <<>>

NextCalc ==
  \/ Free(type_input)
  \/ Free(toggle_round)
  \/ Free(calculate)
  \/ Free(open_settings_calc)
  \/ Free(printer_selected)
  \/ Free(plastic_selected)

SpecCalc == InitCalc /\ [][NextCalc]_vars

(***************************************************************************)
(* SpecRound: custom_round on its own, on every multiple of 1/2 between    *)
(* -MaxRoundValue and MaxRoundValue.                                       *)
(***************************************************************************)
RoundValues == {Rat(k, 2) : k \in (-2 * MaxRoundValue)..(2 * MaxRoundValue)}

InitRound ==
  /\ InitApp({NoFile})
  /\ io_outcomes = IO
  /\ value \in RoundValues
  /\ rounded = <<>>

NextRound == apply_custom_round

SpecRound == InitRound /\ [][NextRound]_vars

(***************************************************************************)
(* SpecSession: the profile store over several sessions.  As Spec, and the *)
(* program can be launched again after its window was closed.              *)
(***************************************************************************)
NextSession ==
  \/ Next
  \/ Bounded(relaunch)

SpecSession == Init /\ [][NextSession]_vars

(***************************************************************************)
(* SpecApp: the profile store of the settings.json variant (src/app.py).   *)
(* The program starts on one of a few file systems and the user runs up to *)
(* MaxAppOps handlers.                                                     *)
(***************************************************************************)
\* How many handlers a behaviour of the settings.json variant runs.
MaxAppOps == 3

\* The state the handlers of src/app.py read and write, as one record.
app_self ==
  [settings |-> settings, printers |-> printers, plastics |-> plastics,
   current_printer |-> current_printer, current_plastic |-> current_plastic,
   printer_combo |-> printer_combo, plastic_combo |-> plastic_combo,
   settings_file |-> settings_file, profile_files |-> profile_files,
   messages |-> <<>>]

app_Commit(s, name) ==
  /\ settings' = s.settings
  /\ printers' = s.printers
  /\ plastics' = s.plastics
  /\ current_printer' = s.current_printer
  /\ current_plastic' = s.current_plastic
  /\ printer_combo' = s.printer_combo
  /\ plastic_combo' = s.plastic_combo
  /\ settings_file' = s.settings_file
  /\ profile_files' = s.profile_files
  /\ messages' = s.messages
  /\ handler' = name

app_Frame == UNCHANGED <<entries_input, round_var, result_text, config_file, closed, value,
                         rounded, candidates, config_dir, config_file_path, io_outcomes,
                         export_file>>

\* The settings.json files and the profile files the program may find at launch.
AppSettingsFiles ==
  {NoFile,
   JsonFile(settings_document([electricity_cost_default |-> Rat(15, 100),
                               margin_default |-> RInt(10),
                               profiles_path |-> OtherProfilesFile]))}

AppProfileFiles ==
  {[path \in AppPaths |-> IF path = PROFILES_FILE THEN default ELSE other] :
     default \in {NoFile, JsonFile(profiles_document(<<PrinterA>>, <<PlasticA>>))},
     other \in {NoFile, Malformed,
                JsonFile(profiles_document(<<PrinterB, PrinterA>>, <<>>))}}

\* The files the user may pick in _import_profiles.
AppImportFiles ==
  { Malformed,
    JsonFile([printers |-> << [name |-> JStr(<<"A">>), power |-> JNum(RInt(200))],
                              [name |-> JStr(<<"c">>)],
                              [name |-> JStr(<<"c">>), power |-> JNum(RInt(5))] >>,
              plastics |-> << [name |-> JStr(<<"A">>), plastic_cost |-> JStr(<<"2", "0">>)] >>]),
    JsonFile([plastics |-> << [name |-> JStr(<<"A">>), plastic_cost |-> JStr(<<"x">>)] >>]) }

\* What the user may do in the settings dialog of src/app.py.
AppSettingsDialogs(st) ==
  {[button |-> "cancel", fields |-> app_SettingsWindow_populate(st)]}
  \cup {[button |-> "save",
         fields |-> [electricity_cost_default |->
                       app_SettingsWindow_populate(st).electricity_cost_default,
                     margin_default |-> marg, profiles_path |-> path]] :
          marg \in MarginTexts \cup {app_SettingsWindow_populate(st).margin_default},
          path \in {<<" ">>, PROFILES_FILE, <<" ">> \o OtherProfilesFile}}

app_create_printer ==
  /\ Running
  /\ Len(printers) < MaxProfiles
  /\ \E dlg \in PrinterDialogs(None), io \in io_outcomes :
       /\ app_Commit(app_create_printer_do(app_self, dlg.fields, dlg.button, io),
                     "_create_printer")
       /\ request' = Request(0, ProfileWindow("printer", dlg.fields, dlg.button).result_profile,
                             FALSE)
  /\ app_Frame

app_create_plastic ==
  /\ Running
  /\ Len(plastics) < MaxProfiles
  /\ \E dlg \in PlasticDialogs(None), io \in io_outcomes :
       /\ app_Commit(app_create_plastic_do(app_self, dlg.fields, dlg.button, io),
                     "_create_plastic")
       /\ request' = Request(0, ProfileWindow("plastic", dlg.fields, dlg.button).result_profile,
                             FALSE)
  /\ app_Frame

app_edit_printer ==
  /\ Running
  /\ IF combo_current(printer_combo) = 0
       THEN /\ app_Commit(show([app_self EXCEPT !.printer_combo = combo_queried(@)],
                               "showwarning: No printer selected."), "_edit_printer")
            /\ request' = Request(0, None, FALSE)
       ELSE \E dlg \in PrinterDialogs(printers[combo_current(printer_combo)]),
               io \in io_outcomes :
              /\ app_Commit(app_edit_printer_do(app_self, combo_current(printer_combo),
                                                dlg.fields, dlg.button, io), "_edit_printer")
              /\ request' = Request(combo_current(printer_combo),
                                    ProfileWindow("printer", dlg.fields, dlg.button).result_profile,
                                    FALSE)
  /\ app_Frame

app_delete_printer ==
  /\ Running
  /\ LET idx == combo_current(printer_combo)
     IN  IF idx = 0
           THEN /\ app_Commit(show([app_self EXCEPT !.printer_combo = combo_queried(@)],
                                   "showwarning: No printer selected."), "_delete_printer")
                /\ request' = Request(0, None, FALSE)
           ELSE \E answer \in BOOLEAN, io \in io_outcomes :
                  /\ app_Commit(app_delete_printer_do(app_self, idx, answer, io),
                                "_delete_printer")
                  /\ request' = Request(idx, None, answer)
  /\ app_Frame

app_delete_plastic ==
  /\ Running
  /\ LET idx == combo_current(plastic_combo)
     IN  IF idx = 0
           THEN /\ app_Commit(show([app_self EXCEPT !.plastic_combo = combo_queried(@)],
                                   "showwarning: No plastic selected."), "_delete_plastic")
                /\ request' = Request(0, None, FALSE)
           ELSE \E answer \in BOOLEAN, io \in io_outcomes :
                  /\ app_Commit(app_delete_plastic_do(app_self, idx, answer, io),
                                "_delete_plastic")
                  /\ request' = Request(idx, None, answer)
  /\ app_Frame

\* The user picks an item of the printer selector.
app_printer_selected ==
  /\ Running
  /\ \E i \in 1..Len(printer_combo.values) :
       /\ app_Commit(app_on_printer_selected(
                       [app_self EXCEPT !.printer_combo = combo_select(@, i)]),
                     "_on_printer_selected")
       /\ request' = Request(i, None, FALSE)
  /\ app_Frame

app_import_profiles ==
  /\ Running
  /\ \E file \in AppImportFiles, io \in io_outcomes :
       /\ Len(app_import_profiles_do(app_self, file, io).printers) <= MaxProfiles
       /\ Len(app_import_profiles_do(app_self, file, io).plastics) <= MaxProfiles
       /\ app_Commit(app_import_profiles_do(app_self, file, io), "_import_profiles")
       /\ request' = Request(0, file, FALSE)
  /\ app_Frame

app_open_settings ==
  /\ Running
  /\ \E dlg \in AppSettingsDialogs(settings), io \in io_outcomes :
       /\ app_Commit(app_open_settings_do(app_self, dlg.fields, dlg.button, io),
                     "_open_settings")
       /\ request' = Request(0, app_SettingsWindow_result(dlg.fields, dlg.button), FALSE)
  /\ app_Frame

\* The window of src/app.py after App.__init__.
InitSettingsJson ==
  /\ \E settings_json \in AppSettingsFiles, files \in AppProfileFiles, path \in AppPaths :
       /\ settings = app_startup(settings_json, files, path, "ok").settings
       /\ printers = app_startup(settings_json, files, path, "ok").printers
       /\ plastics = app_startup(settings_json, files, path, "ok").plastics
       /\ current_printer = app_startup(settings_json, files, path, "ok").current_printer
       /\ current_plastic = app_startup(settings_json, files, path, "ok").current_plastic
       /\ printer_combo = app_startup(settings_json, files, path, "ok").printer_combo
       /\ plastic_combo = app_startup(settings_json, files, path, "ok").plastic_combo
       /\ settings_file = app_startup(settings_json, files, path, "ok").settings_file
       /\ profile_files = app_startup(settings_json, files, path, "ok").profile_files
       /\ messages = app_startup(settings_json, files, path, "ok").messages
  /\ config_file = NoFile
  /\ export_file = NoFile
  /\ candidates = [path \in CandidatePaths |-> NoFile]
  /\ config_dir = config_dir_in("cwd")
  /\ config_file_path = config_path_in("cwd")
  /\ io_outcomes = IO
  /\ handler = "__init__"
  /\ request = Request(0, None, FALSE)
  /\ closed = FALSE
  /\ ops = 0
  /\ entries_input = [weight |-> <<>>, time |-> <<>>, extra |-> <<"0">>]
  /\ round_var = FALSE
  /\ result_text = None
  /\ value = RInt(0)
  /\ rounded = <<>>

\* A handler of src/app.py run within the bound.
AppBounded(A) == ops < MaxAppOps /\ A /\ ops' = ops + 1

NextApp ==
  \/ AppBounded(app_create_printer)
  \/ AppBounded(app_create_plastic)
  \/ AppBounded(app_edit_printer)
  \/ AppBounded(app_delete_printer)
  \/ AppBounded(app_delete_plastic)
  \/ AppBounded(app_printer_selected)
  \/ AppBounded(app_import_profiles)
  \/ AppBounded(app_open_settings)

SpecApp == InitSettingsJson /\ [][NextApp]_vars

(***************************************************************************)
(* SpecIO: the profile store on a file system whose writes can fail.  As   *)
(* Spec, with every write of config.json succeeding, raising before the    *)
(* file is touched, or stopping after the file was truncated.              *)
(***************************************************************************)
InitIO ==
  /\ InitApp(StartFiles)
  /\ io_outcomes = IOFailing
  /\ value = RInt(0)
  /\ rounded = <<>>

\* A handler run within the bound of SpecIO.
Faulty(A) == ops < MaxFaultOps /\ A /\ ops' = ops + 1

NextIO ==
  \/ Faulty(create_printer)
  \/ Faulty(create_plastic)
  \/ Faulty(edit_printer)
  \/ Faulty(edit_plastic)
  \/ Faulty(delete_printer)
  \/ Faulty(delete_plastic)
  \/ Faulty(printer_selected)
  \/ Faulty(plastic_selected)
  \/ Faulty(import_config)
  \/ Faulty(open_settings)
  \/ Faulty(on_closing)

SpecIO == InitIO /\ [][NextIO]_vars

(***************************************************************************)
(* SpecStartup: the launch of the program.  A behaviour starts before the   *)
(* window is constructed, with some configuration files at the candidate    *)
(* locations; App.__init__ runs, and then handlers of the window.           *)
(***************************************************************************)
\* The files at the candidate locations: each location has its own file or none.
StartupCandidates ==
  {[path \in CandidatePaths |->
      CASE path = config_path_in("~/Documents") -> documents
        [] path = config_path_in("cwd") -> cwd
        [] path = config_path_in("~/Desktop") -> desktop
        [] path = config_path_in("~") -> home] :
     documents \in {NoFile, WrittenConfig2},
     cwd \in {NoFile, Malformed},
     desktop \in {NoFile, BadMarginConfig},
     home \in {NoFile, JsonFile(EmptyObject), SparseConfig}}

\* Before App() is constructed.  config_dir holds what _get_config_directory
\* resolves in this environment (Documents usable or not).
InitStartup ==
  /\ candidates \in StartupCandidates
  /\ \E documents_ok \in BOOLEAN :
       /\ config_dir = get_config_directory(documents_ok)
       /\ config_file_path = Append(get_config_directory(documents_ok), CONFIG_FILE)
  /\ io_outcomes = IO
  /\ settings_file = NoFile
  /\ profile_files = [path \in AppPaths |-> NoFile]
  /\ export_file = NoFile
  /\ settings = Settings_init
  /\ printers = <<>>
  /\ plastics = <<>>
  /\ current_printer = None
  /\ current_plastic = None
  /\ printer_combo = EmptyCombo
  /\ plastic_combo = EmptyCombo
  /\ config_file = NoFile
  /\ messages = <<>>
  /\ handler = "__main__"
  /\ request = Request(0, None, FALSE)
  /\ closed = FALSE
  /\ ops = 0
  /\ entries_input = [weight |-> <<>>, time |-> <<>>, extra |-> <<>>]
  /\ round_var = FALSE
  /\ result_text = None
  /\ value = RInt(0)
  /\ rounded = <<>>

\* A handler of the constructed window, within the bound.
Started(A) == handler # "__main__" /\ ops < MaxStartupOps /\ A /\ ops' = ops + 1

NextStartup ==
  \/ app_init
  \/ Started(create_printer)
  \/ Started(edit_printer)
  \/ Started(delete_printer)
  \/ Started(delete_plastic)
  \/ Started(printer_selected)
  \/ Started(import_config)
  \/ Started(on_closing)

SpecStartup == InitStartup /\ [][NextStartup]_vars

(***************************************************************************)
(* custom_round (SpecRound).                                               *)
(***************************************************************************)
\* C1: for every integer value, positive, zero or negative, with r = value mod
\* 100 taken in [0,100) and base = value - r, custom_round(value) is base+50
\* when r < 25 and base+100 when r >= 25; custom_round(1000) = 1050,
\* custom_round(1024) = 1050, custom_round(1025) = 1100, custom_round(1099) = 1100.
C1_BucketRule ==
  /\ (rounded # <<>> /\ value.d = 1) =>
       rounded[1] = (value.n - (value.n % 100))
                      + (IF value.n % 100 < 25 THEN 50 ELSE 100)
  /\ (rounded # <<>> /\ value = RInt(1000)) => rounded = <<1050>>
  /\ (rounded # <<>> /\ value = RInt(1024)) => rounded = <<1050>>
  /\ (rounded # <<>> /\ value = RInt(1025)) => rounded = <<1100>>
  /\ (rounded # <<>> /\ value = RInt(1099)) => rounded = <<1100>>

\* A negative integer on the boundary remainder: -1075 mod 100 = 25.
C1_Witness == value = RInt(-1075) /\ rounded = <<-1000>>

\* C2: for all values, custom_round(value) is a multiple of 50 strictly greater
\* than value - 50, and it is never value itself: a multiple of 100 gives
\* value + 50.
C2_MultipleOf50Above ==
  rounded # <<>> =>
    /\ rounded[1] % 50 = 0
    /\ RLess(RSub(value, RInt(50)), RInt(rounded[1]))
    /\ RInt(rounded[1]) # value
    /\ (value.d = 1 /\ value.n % 100 = 0) => rounded[1] = value.n + 50

\* A multiple of 100, here a negative one, has been rounded.
C2_Witness == value = RInt(-300) /\ rounded = <<-250>>

(***************************************************************************)
(* The pricing calculation (SpecCalc).                                     *)
(***************************************************************************)
\* The numbers the entries hold, as _calculate reads them.
entered(key) == float_str(replace_comma(entries_input[key])).v

\* A step of _calculate that wrote the Results box.
calculated == calculate /\ messages' = <<>>

\* C3: for every selected printer and plastic and all numeric weight, time and
\* extra, Calculate computes amortization cost = amortization * time,
\* electricity cost = (power / 1000) * time * electricity_cost_default, plastic
\* cost = (weight / 1000) * plastic cost per kg, base cost = their sum plus
\* extra, and price with margin = base cost * (1 + margin_default / 100), with
\* the settings as they are when Calculate is pressed.
C3_CostFormulas ==
  [][calculated =>
       /\ result_text'.amort = RMul(current_printer.amortization, entered("time"))
       /\ RMul(result_text'.elec, RInt(1000)) =
            RMul(RMul(current_printer.power, entered("time")),
                 settings.electricity_cost_default)
       /\ RMul(result_text'.plastic_cost, RInt(1000)) =
            RMul(entered("weight"), current_plastic.plastic_cost)
       /\ result_text'.base_price =
            RAdd(RAdd(result_text'.amort, result_text'.elec),
                 RAdd(result_text'.plastic_cost, entered("extra")))
       /\ RMul(result_text'.price_with_margin, RInt(100)) =
            RMul(result_text'.base_price, RAdd(RInt(100), settings.margin_default))
    ]_vars

\* Printer "A" (1500 W, 2.5 per hour) for 1.5 h after the electricity cost was
\* changed to 2 in the settings dialog: 1.5 kW * 1.5 h * 2 = 4.5.
C3_Witness ==
  /\ handler = "_calculate"
  /\ result_text # None
  /\ result_text.printer = <<"A">>
  /\ result_text.time = Rat(3, 2)
  /\ settings.electricity_cost_default = RInt(2)
  /\ result_text.amort = Rat(15, 4)
  /\ result_text.elec = Rat(9, 2)

\* C4: the final price is custom_round(price with margin) when the round flag
\* is set and the price with margin rounded to 2 decimals when it is not: the
\* flag alone chooses, and the result is never the other value or a third one.
C4_FinalPriceByFlag ==
  [][calculated =>
       /\ round_var =>
            result_text'.final_price = RInt(custom_round(result_text'.price_with_margin))
       /\ ~round_var =>
            result_text'.final_price = round2(result_text'.price_with_margin)
    ]_vars

\* A rounded calculation whose two candidate prices differ: 1125.916 gives 1200.
C4_Witness ==
  /\ handler = "_calculate"
  /\ round_var
  /\ result_text # None
  /\ result_text.price_with_margin = Rat(1125916, 1000)
  /\ result_text.final_price = RInt(1200)

\* C5: printer power 200 and amortization 1.0, plastic cost 20 per kg, weight
\* 50 g, time 2 h, extra 0, electricity rate 0.15, margin 10, round flag off:
\* amortization cost 2.00, electricity cost 0.06, plastic cost 1.00, base cost
\* 3.06 and final price 3.37.
C5_Example ==
  [][( /\ calculated
       /\ current_printer.power = RInt(200)
       /\ current_printer.amortization = RInt(1)
       /\ current_plastic.plastic_cost = RInt(20)
       /\ entered("weight") = RInt(50)
       /\ entered("time") = RInt(2)
       /\ entered("extra") = RInt(0)
       /\ settings.electricity_cost_default = Rat(15, 100)
       /\ settings.margin_default = RInt(10)
       /\ ~round_var )
     =>
       /\ result_text'.amort = RInt(2)
       /\ result_text'.elec = Rat(6, 100)
       /\ result_text'.plastic_cost = RInt(1)
       /\ result_text'.base_price = Rat(306, 100)
       /\ result_text'.final_price = Rat(337, 100)
    ]_vars

\* The example has been calculated.
C5_Witness ==
  /\ handler = "_calculate"
  /\ result_text # None
  /\ result_text.weight = RInt(50)
  /\ result_text.time = RInt(2)
  /\ result_text.extra = RInt(0)
  /\ result_text.amort = RInt(2)
  /\ result_text.elec = Rat(6, 100)
  /\ result_text.base_price = Rat(306, 100)
  /\ result_text.price_with_margin = Rat(3366, 1000)
  /\ result_text.final_price = Rat(337, 100)

(***************************************************************************)
(* The profile store (Spec).                                               *)
(***************************************************************************)
\* The step just taken ran the handler `name`.
ran(name) == handler' = name /\ ops' = ops + 1

DuplicateName == "showerror: Profile with this name already exists."

\* Some profile of the list has this name, compared character by character.
has_name(profiles, name) == \E i \in DOMAIN profiles : profiles[i].name = name

\* The lists, the selection, the settings and the configuration file are as
\* they were before the step.
store_unchanged ==
  /\ printers' = printers
  /\ plastics' = plastics
  /\ current_printer' = current_printer
  /\ current_plastic' = current_plastic
  /\ printer_combo'.string = printer_combo.string
  /\ plastic_combo'.string = plastic_combo.string
  /\ settings' = settings
  /\ config_file' = config_file

\* C6: creating a printer (or plastic) profile whose name is exactly, case-
\* sensitively, the name of a profile already in the same list is rejected, and
\* the profile lists, the current selection and the persisted document are the
\* same as before.
C6_DuplicateCreateRejected ==
  [][/\ ( /\ ran("_create_printer")
          /\ request'.result # None
          /\ has_name(printers, request'.result.name) )
        => (messages' = <<DuplicateName>> /\ store_unchanged)
     /\ ( /\ ran("_create_plastic")
          /\ request'.result # None
          /\ has_name(plastics, request'.result.name) )
        => (messages' = <<DuplicateName>> /\ store_unchanged)
    ]_vars

\* A printer dialog returned a name the list already had.
C6_Witness ==
  /\ handler = "_create_printer"
  /\ request.result # None
  /\ has_name(printers, request.result.name)
  /\ messages = <<DuplicateName>>

\* The new name differs from the edited profile's and another profile has it.
clashes(profiles, idx, new) ==
  /\ new.name # profiles[idx].name
  /\ \E i \in DOMAIN profiles : i # idx /\ profiles[i].name = new.name

\* C7: editing a profile fails with the duplicate-name error, the store
\* unchanged, exactly when the new name differs from the profile's old name and
\* is the name of another profile of the same list; an edit that keeps the old
\* name, or takes a name no other profile has, succeeds and replaces the
\* profile.
C7_EditDuplicateExactly ==
  [][/\ (ran("_edit_printer") /\ request'.result # None) =>
          IF clashes(printers, request'.idx, request'.result)
            THEN messages' = <<DuplicateName>> /\ store_unchanged
            ELSE /\ messages' = <<>>
                 /\ printers' = [printers EXCEPT ![request'.idx] = request'.result]
     /\ (ran("_edit_plastic") /\ request'.result # None) =>
          IF clashes(plastics, request'.idx, request'.result)
            THEN messages' = <<DuplicateName>> /\ store_unchanged
            ELSE /\ messages' = <<>>
                 /\ plastics' = [plastics EXCEPT ![request'.idx] = request'.result]
    ]_vars

\* An edit was rejected for the name of another printer.
C7_Witness ==
  /\ handler = "_edit_printer"
  /\ request.result # None
  /\ clashes(printers, request.idx, request.result)
  /\ messages = <<DuplicateName>>

unique_names(profiles) ==
  \A i, j \in DOMAIN profiles : profiles[i].name = profiles[j].name => i = j

\* C8: in every state reached by create, edit, delete and import from an empty
\* store, no two printers share a name and no two plastics share a name, also
\* when an imported document itself repeats a name.
C8_UniqueNames == unique_names(printers) /\ unique_names(plastics)

\* The import of the document that lists printer "A" twice went through: the
\* first "A" (200 W) is in the list.
C8_Witness ==
  /\ handler = "_import_config"
  /\ messages = <<"showinfo: Configuration imported successfully.">>
  /\ \E i \in DOMAIN printers : printers[i] = PrinterProfile(<<"A">>, RInt(200), RInt(0))

\* C9: every profile in the printer or plastic list has a non-empty name, in
\* every state reached by startup load, create, edit, delete and import.
\* Violated: from_dict gives a profile without a "name" key the name "", and
\* _import_config appends it.
C9_NonEmptyNames ==
  /\ \A i \in DOMAIN printers : printers[i].name # <<>>
  /\ \A i \in DOMAIN plastics : plastics[i].name # <<>>

\* C10: after the deletion of the printer (or plastic) whose name is in
\* last_selected_printer (or last_selected_plastic), that reference is empty or
\* names a profile still in the list, in memory and in the document the delete
\* wrote.  Violated: _save_profiles runs _update_last_selected, which puts the
\* name of current_printer, still the deleted profile, back.
C10_NoDanglingLastSelected ==
  [][/\ ( /\ ran("_delete_printer")
          /\ request'.answer
          /\ printers[request'.idx].name = settings.last_selected_printer )
        => /\ \/ settings'.last_selected_printer = <<>>
              \/ has_name(printers', settings'.last_selected_printer)
           /\ \/ config_file'.data.last_selected_printer.s = <<>>
              \/ has_name(printers', config_file'.data.last_selected_printer.s)
     /\ ( /\ ran("_delete_plastic")
          /\ request'.answer
          /\ plastics[request'.idx].name = settings.last_selected_plastic )
        => /\ \/ settings'.last_selected_plastic = <<>>
              \/ has_name(plastics', settings'.last_selected_plastic)
           /\ \/ config_file'.data.last_selected_plastic.s = <<>>
              \/ has_name(plastics', config_file'.data.last_selected_plastic.s)
    ]_vars

(***************************************************************************)
(* The launch and the selection (SpecStartup).                             *)
(***************************************************************************)
ImportedSuccessfully == "showinfo: Configuration imported successfully."

\* `current` is what the selection resolves to for this list and this
\* last-selected name: the profile of that name, else the first, else none.
resolves_to(profiles, last_selected, current) ==
  IF profiles = <<>> THEN current = None
  ELSE IF last_selected # <<>> /\ has_name(profiles, last_selected)
    THEN current.name = last_selected /\ \E i \in DOMAIN profiles : profiles[i] = current
  ELSE current = profiles[1]

\* C11: whenever the selection is resolved, at startup and after a refresh of
\* the store (the end of a delete and of a successful import), the current
\* profile is the one last_selected_* names if the list has a profile of that
\* name, otherwise the first profile of a non-empty list, otherwise none; no
\* error is shown for any name.
C11_SelectionResolved ==
  [][/\ ( \/ ran("__init__")
          \/ ran("_delete_printer") /\ request'.answer
          \/ ran("_import_config") /\ messages' = <<ImportedSuccessfully>> )
        => resolves_to(printers', settings'.last_selected_printer, current_printer')
     /\ ( \/ ran("__init__")
          \/ ran("_delete_plastic") /\ request'.answer
          \/ ran("_import_config") /\ messages' = <<ImportedSuccessfully>> )
        => resolves_to(plastics', settings'.last_selected_plastic, current_plastic')
     /\ ran("__init__") /\ candidates[config_file_path'] \in {WrittenConfig2, SparseConfig}
        => messages' = <<>>
    ]_vars

\* The program started on a configuration whose last-selected printer "z" is not
\* in the list: the first printer, "b", is current.
C11_Witness ==
  /\ handler = "__init__"
  /\ settings.last_selected_printer = <<"z">>
  /\ ~has_name(printers, <<"z">>)
  /\ current_printer = printers[1]
  /\ current_printer.name = <<"b">>

(***************************************************************************)
(* Persistence over sessions (SpecSession).                                *)
(***************************************************************************)
\* C12: saving the settings and the profile lists to the JSON document and
\* loading that document again yields equal records: the same electricity
\* cost, margin and last-selected names, and the same printers and plastics in
\* the same order with the same attribute values.  (_on_closing saves; the next
\* launch loads.)
C12_SaveLoadRoundTrip ==
  [][(closed /\ ran("__init__")) =>
       /\ settings'.electricity_cost_default = settings.electricity_cost_default
       /\ settings'.margin_default = settings.margin_default
       /\ settings'.last_selected_printer = settings.last_selected_printer
       /\ settings'.last_selected_plastic = settings.last_selected_plastic
       /\ printers' = printers
       /\ plastics' = plastics
       /\ messages' = <<>>
    ]_vars

\* A session that changed the store was closed and the program launched again:
\* two printers, one with amortization 1, and the electricity cost 0.15.
C12_Witness ==
  /\ handler = "__init__"
  /\ ops = 3
  /\ ~closed
  /\ Len(printers) = 2
  /\ printers[1] = PrinterA
  /\ settings.electricity_cost_default = Rat(15, 100)
  /\ config_file = JsonFile(config_document(settings, printers, plastics))

\* The file the launch adopted, as it was when the program started.
adopted == candidates[config_file_path']

\* C13: loading a JSON object that has none of the optional keys gives
\* electricity cost 0, margin 0, empty last-selected names and empty printer and
\* plastic lists, and a profile entry without a numeric key loads with 0 for
\* that attribute; no error is raised or shown.
C13_MissingKeysDefault ==
  [][(ran("__init__") /\ adopted \in {JsonFile(EmptyObject), SparseConfig}) =>
       /\ "electricity_cost_default" \notin DOMAIN adopted.data
            => settings'.electricity_cost_default = RInt(0)
       /\ "margin_default" \notin DOMAIN adopted.data
            => settings'.margin_default = RInt(0)
       /\ "last_selected_printer" \notin DOMAIN adopted.data
            => settings'.last_selected_printer = <<>>
       /\ "last_selected_plastic" \notin DOMAIN adopted.data
            => settings'.last_selected_plastic = <<>>
       /\ "printers" \notin DOMAIN adopted.data => printers' = <<>>
       /\ "plastics" \notin DOMAIN adopted.data => plastics' = <<>>
       /\ "printers" \in DOMAIN adopted.data =>
            /\ Len(printers') = Len(adopted.data.printers)
            /\ \A i \in DOMAIN printers' :
                 /\ "power" \notin DOMAIN adopted.data.printers[i]
                      => printers'[i].power = RInt(0)
                 /\ "amortization" \notin DOMAIN adopted.data.printers[i]
                      => printers'[i].amortization = RInt(0)
       /\ "plastics" \in DOMAIN adopted.data =>
            /\ Len(plastics') = Len(adopted.data.plastics)
            /\ \A i \in DOMAIN plastics' :
                 "plastic_cost" \notin DOMAIN adopted.data.plastics[i]
                   => plastics'[i].plastic_cost = RInt(0)
       /\ messages' = <<>>
       /\ config_file' = adopted
    ]_vars

\* The program started on the empty object.
C13_Witness ==
  /\ handler = "__init__"
  /\ candidates[config_file_path] = JsonFile(EmptyObject)
  /\ settings = Settings_init
  /\ printers = <<>>
  /\ plastics = <<>>
  /\ current_printer = None
  /\ messages = <<>>

(***************************************************************************)
(* Import (Spec).                                                          *)
(***************************************************************************)
\* The entries of a list of the imported document, [] when the key is absent.
entries_of(file, key) == IF key \in DOMAIN file.data THEN file.data[key] ELSE <<>>

\* The name of an entry of the document, "" when it has none.
entry_name(entry) == IF "name" \in DOMAIN entry THEN entry.name.s ELSE <<>>

\* The position of the first entry with this name.
first_entry(entries, name) ==
  CHOOSE i \in DOMAIN entries :
    /\ entry_name(entries[i]) = name
    /\ \A j \in 1..(i - 1) : entry_name(entries[j]) # name

\* `after` is `before` followed by the entries of new names, each once, in the
\* order of the document.
merged_by_name(before, after, entries) ==
  /\ Len(after) >= Len(before)
  /\ SubSeq(after, 1, Len(before)) = before
  /\ \A i \in DOMAIN entries : has_name(after, entry_name(entries[i]))
  /\ \A k \in (Len(before) + 1)..Len(after) :
       /\ ~has_name(before, after[k].name)
       /\ \E i \in DOMAIN entries : entry_name(entries[i]) = after[k].name
       /\ \A l \in (Len(before) + 1)..Len(after) :
            l < k => first_entry(entries, after[l].name) < first_entry(entries, after[k].name)

\* C14: import merges profiles by name: every profile that was in the store is
\* still there with the same values at the same position, an imported profile
\* whose name is already present is skipped, and each imported profile with a
\* new name is appended after the existing ones in document order.
C14_ImportMergesByName ==
  [][(ran("_import_config") /\ messages' = <<ImportedSuccessfully>>) =>
       /\ merged_by_name(printers, printers', entries_of(request'.result, "printers"))
       /\ merged_by_name(plastics, plastics', entries_of(request'.result, "plastics"))
       /\ \A k \in (Len(printers) + 1)..Len(printers') :
            printers'[k].power =
              py_float(request'.result.data.printers[
                         first_entry(request'.result.data.printers, printers'[k].name)].power).v
    ]_vars

\* The document with "A" (200 W), "A" (0 W) and a nameless printer was imported
\* into a store that had "a" and "A": "a" and the old "A" stay, the nameless
\* one is appended.
C14_Witness ==
  /\ handler = "_import_config"
  /\ messages = <<ImportedSuccessfully>>
  /\ Len(entries_of(request.result, "printers")) = 3
  /\ Len(printers) = 3
  /\ printers[1] = PrinterA
  /\ printers[2] = PrinterB
  /\ printers[3].name = <<>>

(***************************************************************************)
(* Dialogs (Spec).                                                         *)
(***************************************************************************)
\* The step ran a handler that opens a dialog.
ran_dialog ==
  \/ ran("_create_printer")
  \/ ran("_create_plastic")
  \/ ran("_edit_printer")
  \/ ran("_edit_plastic")
  \/ ran("_open_settings")

C16_FailedImportChangesNothing ==
  [][(ran("_import_config") /\ messages' = <<"showerror: Failed to import configuration">>) =>
       /\ settings' = settings
       /\ printers' = printers
       /\ plastics' = plastics
    ]_vars

(***************************************************************************)
(* Failed writes (SpecIO).                                                 *)
(***************************************************************************)
\* The handler's write of config.json failed.
write_failed ==
  \E k \in DOMAIN messages' : messages'[k] = "showerror: Failed to save configuration"

\* C17: when writing the persisted document fails during a create, edit or
\* delete, the operation is aborted and the in-memory profile list is the same
\* as before the operation.
C17_FailedWriteKeepsLists ==
  [][( /\ \/ ran("_create_printer") \/ ran("_create_plastic")
          \/ ran("_edit_printer") \/ ran("_edit_plastic")
          \/ ran("_delete_printer") \/ ran("_delete_plastic")
       /\ write_failed ) =>
       /\ printers' = printers
       /\ plastics' = plastics
    ]_vars

(***************************************************************************)
(* The persisted document after a mutation (SpecIO).                       *)
(***************************************************************************)
\* The step completed a mutation and showed no failure: a create or an edit
\* whose dialog gave a result, a confirmed delete, an import, a settings save.
completed_mutation ==
  \/ /\ \/ ran("_create_printer") \/ ran("_create_plastic")
        \/ ran("_edit_printer") \/ ran("_edit_plastic")
     /\ request'.result # None
     /\ messages' = <<>>
  \/ /\ ran("_delete_printer") \/ ran("_delete_plastic")
     /\ request'.answer
     /\ Len(messages') = 1
  \/ /\ ran("_import_config")
     /\ messages' = <<ImportedSuccessfully>>
  \/ /\ ran("_open_settings")
     /\ request'.result # None
     /\ messages' = <<>>

\* The document holds these settings and these lists, field for field.
document_holds(file, st, prs, pls) ==
  /\ file.kind = "json"
  /\ file.data.electricity_cost_default = JNum(st.electricity_cost_default)
  /\ file.data.margin_default = JNum(st.margin_default)
  /\ file.data.last_selected_printer = JStr(st.last_selected_printer)
  /\ file.data.last_selected_plastic = JStr(st.last_selected_plastic)
  /\ Len(file.data.printers) = Len(prs)
  /\ \A i \in 1..Len(prs) :
       /\ file.data.printers[i].name = JStr(prs[i].name)
       /\ file.data.printers[i].power = JNum(prs[i].power)
       /\ file.data.printers[i].amortization = JNum(prs[i].amortization)
  /\ Len(file.data.plastics) = Len(pls)
  /\ \A i \in 1..Len(pls) :
       /\ file.data.plastics[i].name = JStr(pls[i].name)
       /\ file.data.plastics[i].plastic_cost = JNum(pls[i].plastic_cost)

\* C18: after every completed mutation (a successful create, edit, delete,
\* import or settings save) with no I/O failure, the settings fields and the
\* lists of the persisted document equal the in-memory ones.
C18_DocumentEqualsMemory ==
  [][completed_mutation => document_holds(config_file', settings', printers', plastics')]_vars

\* A printer was created after the store already held one, the write succeeded
\* and the document holds both.
C18_Witness ==
  /\ handler = "_create_printer"
  /\ request.result # None
  /\ messages = <<>>
  /\ Len(printers) = 2
  /\ document_holds(config_file, settings, printers, plastics)

(***************************************************************************)
(* The search for an existing configuration (SpecStartup).                 *)
(***************************************************************************)
\* The candidate locations in the order of the search, for a program whose
\* initially resolved path is `path`.
candidate_order(path) ==
  <<path,
    <<"~/Documents", "3d-print-price-config", "config.json">>,
    <<"cwd", "3d-print-price-config", "config.json">>,
    <<"~/Desktop", "3d-print-price-config", "config.json">>,
    <<"~", "3d-print-price-config", "config.json">> >>

\* C19: find_existing_config adopts the first candidate that exists, in the
\* order initially resolved path, Documents, working directory, Desktop, home,
\* and sets both config_dir and config_file_path to it; when no candidate
\* exists it reports not-found and leaves both unchanged.
C19_FirstExistingCandidate ==
  [][ran("__init__") =>
       LET order == candidate_order(config_file_path)
           there == {i \in 1..5 : candidates[order[i]].kind # "nofile"}
       IN  IF there = {}
             THEN /\ config_file_path' = config_file_path
                  /\ config_dir' = config_dir
                  /\ messages'[1] = "showinfo: First Run Setup"
             ELSE \E i \in there :
                    /\ \A j \in there : i <= j
                    /\ config_file_path' = order[i]
                    /\ config_dir' = <<order[i][1], "3d-print-price-config">>
    ]_vars

\* No configuration is in Documents and configurations exist in the working
\* directory, on the Desktop and in the home directory: the one in the working
\* directory was adopted.
C19_Witness ==
  /\ handler = "__init__"
  /\ candidates[<<"~/Documents", "3d-print-price-config", "config.json">>].kind = "nofile"
  /\ candidates[<<"cwd", "3d-print-price-config", "config.json">>].kind # "nofile"
  /\ candidates[<<"~/Desktop", "3d-print-price-config", "config.json">>].kind # "nofile"
  /\ candidates[<<"~", "3d-print-price-config", "config.json">>].kind # "nofile"
  /\ config_file_path = <<"cwd", "3d-print-price-config", "config.json">>
  /\ config_dir = <<"cwd", "3d-print-price-config">>

(***************************************************************************)
(* The first-run setup (SpecStartup).                                      *)
(***************************************************************************)
\* The profile entries a file holds, <<>> for a file that cannot be parsed.
profiles_held(file, key) ==
  IF file.kind = "json" /\ key \in DOMAIN file.data THEN file.data[key] ELSE <<>>

\* C20: the first-run setup (which writes a fresh document with empty lists)
\* runs at startup only when no configuration file exists in any candidate
\* location; a configuration file that exists at startup, parseable or not, is
\* still there with its profiles after startup.
C20_SetupOnlyWithoutConfig ==
  [][(ran("__init__") /\ \E path \in DOMAIN candidates : candidates[path].kind # "nofile") =>
       /\ \A k \in DOMAIN messages' : messages'[k] # "showinfo: First Run Setup"
       /\ profiles_held(config_file', "printers") =
            profiles_held(candidates[config_file_path'], "printers")
       /\ profiles_held(config_file', "plastics") =
            profiles_held(candidates[config_file_path'], "plastics")
    ]_vars

(***************************************************************************)
(* Calculate and its inputs (SpecCalc).                                    *)
(***************************************************************************)
\* The entry holds a text float() accepts.
numeric(key) == float_str(replace_comma(entries_input[key])).ok

\* The words of the message boxes _calculate shows.
words_of(message) ==
  CASE message = "showerror: Invalid numeric input." -> {"Invalid", "numeric", "input"}
    [] message = "showwarning: Select a printer profile first." ->
         {"Select", "a", "printer", "profile", "first"}
    [] message = "showwarning: Select a plastic profile first." ->
         {"Select", "a", "plastic", "profile", "first"}
    [] OTHER -> {}

\* The words by which the window and the code call each entry.
field_words ==
  [weight |-> {"weight", "Weight"},
   time   |-> {"time", "Time", "Print"},
   extra  |-> {"extra", "Extra", "Additional"}]

\* C21: when Calculate is given a non-numeric value in weight, time or extra,
\* it rejects the request with a validation error that names the offending
\* field.
C21_ValidationErrorNamesField ==
  [][( /\ calculate
       /\ current_printer # None /\ current_plastic # None
       /\ \E key \in {"weight", "time", "extra"} : ~numeric(key) ) =>
       /\ result_text' = result_text
       /\ Len(messages') = 1
       /\ \E key \in {"weight", "time", "extra"} :
            /\ ~numeric(key)
            /\ words_of(messages'[1]) \cap field_words[key] # {}
    ]_vars

\* What _calculate reads in the current state.
calculate_inputs ==
  [entries |-> entries_input, round |-> round_var,
   printer |-> current_printer, plastic |-> current_plastic, settings |-> settings]

\* C22: Calculate owns no state: every Calculate request, successful or
\* rejected, leaves the printer and plastic lists, the current selection, the
\* settings and the persisted document unchanged, and a Calculate request whose
\* inputs, selection and settings are those of the request before it gives the
\* same result and the same messages.
C22_CalculateOwnsNoState ==
  [][calculate =>
       /\ printers' = printers
       /\ plastics' = plastics
       /\ current_printer' = current_printer
       /\ current_plastic' = current_plastic
       /\ settings' = settings
       /\ config_file' = config_file
       /\ (handler = "_calculate" /\ request.result = calculate_inputs) =>
            (result_text' = result_text /\ messages' = messages)
    ]_vars

\* A rounded result is displayed and the entries, the checkbox, the selection
\* and the settings are still those it was calculated from.
C22_Witness ==
  /\ handler = "_calculate"
  /\ messages = <<>>
  /\ result_text # None
  /\ round_var
  /\ request.result = calculate_inputs

\* C24: Calculate replaces the displayed result only when a printer is selected,
\* a plastic is selected and weight, time and extra all parse as numbers; in
\* every other case it shows one warning or error and the displayed result is
\* the same as before.
C24_ResultReplacedOnlyWhenValid ==
  [][calculate =>
       IF /\ current_printer # None
          /\ current_plastic # None
          /\ numeric("weight") /\ numeric("time") /\ numeric("extra")
         THEN /\ messages' = <<>>
              /\ result_text' # None
              /\ result_text'.printer = current_printer.name
              /\ result_text'.plastic = current_plastic.name
              /\ result_text'.weight = entered("weight")
              /\ result_text'.time = entered("time")
              /\ result_text'.extra = entered("extra")
         ELSE /\ Len(messages') = 1
              /\ messages'[1] \in {"showwarning: Select a printer profile first.",
                                   "showwarning: Select a plastic profile first.",
                                   "showerror: Invalid numeric input."}
              /\ result_text' = result_text
    ]_vars

\* A result was displayed, a later Calculate was refused for a non-numeric
\* entry and the result is still displayed.
C24_Witness ==
  /\ handler = "_calculate"
  /\ messages = <<"showerror: Invalid numeric input.">>
  /\ result_text # None
  /\ ~numeric("weight")

(***************************************************************************)
(* The profiles path of the settings.json variant (SpecApp).               *)
(***************************************************************************)
\* The file holds exactly these lists, entry by entry.
file_holds_lists(file, prs, pls) ==
  /\ file.kind = "json"
  /\ DOMAIN file.data = {"printers", "plastics"}
  /\ Len(file.data.printers) = Len(prs)
  /\ \A i \in 1..Len(prs) :
       /\ file.data.printers[i].name = JStr(prs[i].name)
       /\ file.data.printers[i].power = JNum(prs[i].power)
       /\ file.data.printers[i].amortization = JNum(prs[i].amortization)
  /\ Len(file.data.plastics) = Len(pls)
  /\ \A i \in 1..Len(pls) :
       /\ file.data.plastics[i].name = JStr(pls[i].name)
       /\ file.data.plastics[i].plastic_cost = JNum(pls[i].plastic_cost)

\* The step saved the settings dialog.
settings_saved == ran("_open_settings") /\ request'.result # None

\* The step is a profile operation that saved the profiles.
profiles_saved ==
  \/ /\ ran("_create_printer") \/ ran("_create_plastic") \/ ran("_edit_printer")
     /\ request'.result # None
     /\ messages' = <<>>
  \/ /\ ran("_delete_printer") \/ ran("_delete_plastic")
     /\ request'.answer
  \/ /\ ran("_import_profiles")
     /\ messages' = <<"showinfo: Profiles imported successfully.">>

\* C23: in the settings.json variant, after the Settings dialog is saved with
\* profiles path p, settings.json holds profiles_path = p and the in-memory
\* lists are the contents of the file at p (both empty when that file does not
\* exist or cannot be loaded); the path in use changes only by such a save, and
\* every profile save writes the lists to the file at the path in use and to no
\* other file.
C23_ProfilesPathFollowed ==
  [][ /\ settings_saved =>
           /\ settings'.profiles_path = request'.result.profiles_path
           /\ settings_file'.kind = "json"
           /\ settings_file'.data.profiles_path = JStr(request'.result.profiles_path)
           /\ profile_files' = profile_files
           /\ IF profile_files[request'.result.profiles_path].kind = "json"
                THEN file_holds_lists(profile_files[request'.result.profiles_path],
                                      printers', plastics')
                ELSE printers' = <<>> /\ plastics' = <<>>
      /\ ~settings_saved => settings'.profiles_path = settings.profiles_path
      /\ profiles_saved =>
           /\ file_holds_lists(profile_files'[settings.profiles_path], printers', plastics')
           /\ \A path \in AppPaths \ {settings.profiles_path} :
                profile_files'[path] = profile_files[path]
    ]_vars

\* The program started on profiles.json with one printer and one plastic; the
\* settings dialog was saved with the other profiles path, whose file holds two
\* printers and no plastic, and these are now the lists.
C23_Witness ==
  /\ handler = "_open_settings"
  /\ ops = 1
  /\ request.result # None
  /\ request.result.profiles_path = OtherProfilesFile
  /\ settings_file.kind = "json"
  /\ settings_file.data.profiles_path = JStr(OtherProfilesFile)
  /\ settings_file.data.margin_default = JNum(RInt(0))
  /\ profile_files[PROFILES_FILE] = JsonFile(profiles_document(<<PrinterA>>, <<PlasticA>>))
  /\ printers = <<PrinterB, PrinterA>>
  /\ plastics = <<>>

(***************************************************************************)
(* The persisted selection (Spec).                                         *)
(***************************************************************************)
\* C25: in the config.json variant, right after the user picks a printer or a
\* plastic in the selector, and right after the window is closed, the persisted
\* last_selected_printer and last_selected_plastic are the names of the
\* currently selected printer and plastic (for each that is selected).
C25_SelectionPersisted ==
  [][(ran("_on_printer_selected") \/ ran("_on_plastic_selected") \/ ran("_on_closing")) =>
       /\ config_file'.kind = "json"
       /\ current_printer' # None =>
            config_file'.data.last_selected_printer = JStr(current_printer'.name)
       /\ current_plastic' # None =>
            config_file'.data.last_selected_plastic = JStr(current_plastic'.name)
    ]_vars

\* The user picked the first plastic of a store that was started on the second
\* one, and config.json names the first.
C25_Witness ==
  /\ handler = "_on_plastic_selected"
  /\ request.idx = 1
  /\ Len(plastics) = 2
  /\ current_plastic = plastics[1]
  /\ current_plastic.name = <<"a">>
  /\ config_file.kind = "json"
  /\ config_file.data.last_selected_plastic = JStr(<<"a">>)
  /\ current_printer.name = <<"A">>
  /\ config_file.data.last_selected_printer = JStr(<<"A">>)

\* The last-selected name the imported document carries under `key`, <<>> when
\* it carries none.
imported_selection(file, key) ==
  IF key \in DOMAIN file.data THEN file.data[key].s ELSE <<>>

\* C26: in the config.json variant a successful import loads the last-selected
\* profiles of the imported document: when its last_selected_printer (or
\* last_selected_plastic) names a profile of the merged store, after the import
\* that profile is the current selection and the persisted last_selected_* holds
\* that name.
C26_ImportLoadsSelection ==
  [][(ran("_import_config") /\ messages' = <<ImportedSuccessfully>>) =>
       /\ ( /\ "last_selected_printer" \in DOMAIN request'.result.data
            /\ has_name(printers', imported_selection(request'.result, "last_selected_printer")) ) =>
              /\ current_printer' # None
              /\ current_printer'.name =
                   imported_selection(request'.result, "last_selected_printer")
              /\ config_file'.data.last_selected_printer =
                   JStr(imported_selection(request'.result, "last_selected_printer"))
       /\ ( /\ "last_selected_plastic" \in DOMAIN request'.result.data
            /\ has_name(plastics', imported_selection(request'.result, "last_selected_plastic")) ) =>
              /\ current_plastic' # None
              /\ current_plastic'.name =
                   imported_selection(request'.result, "last_selected_plastic")
              /\ config_file'.data.last_selected_plastic =
                   JStr(imported_selection(request'.result, "last_selected_plastic"))
    ]_vars

(***************************************************************************)
(* Edit and delete (Spec).                                                 *)
(***************************************************************************)
\* `after` is `before` with the entry at idx replaced by profile.
replaced_at(before, after, idx, profile) ==
  /\ Len(after) = Len(before)
  /\ after[idx] = profile
  /\ \A i \in 1..Len(before) : i # idx => after[i] = before[i]

\* `after` is `before` without the entry at idx.
removed_at(before, after, idx) ==
  /\ Len(after) = Len(before) - 1
  /\ \A i \in 1..(idx - 1) : after[i] = before[i]
  /\ \A i \in idx..Len(after) : after[i] = before[i + 1]

\* C27: edit and delete touch only the selected profile: a successful edit
\* replaces the profile at its index and leaves the length of the list and every
\* other profile's position and values unchanged; a confirmed delete removes
\* exactly the selected profile and keeps the others in their order; a printer
\* operation never changes the plastics and a plastic operation never changes
\* the printers.
C27_EditDeleteTouchOnlySelected ==
  [][ /\ (ran("_edit_printer") /\ request'.result # None /\ messages' = <<>>) =>
           /\ request'.idx = combo_current(printer_combo)
           /\ replaced_at(printers, printers', request'.idx, request'.result)
           /\ plastics' = plastics
      /\ (ran("_edit_plastic") /\ request'.result # None /\ messages' = <<>>) =>
           /\ request'.idx = combo_current(plastic_combo)
           /\ replaced_at(plastics, plastics', request'.idx, request'.result)
           /\ printers' = printers
      /\ (ran("_delete_printer") /\ request'.answer) =>
           /\ request'.idx = combo_current(printer_combo)
           /\ removed_at(printers, printers', request'.idx)
           /\ plastics' = plastics
      /\ (ran("_delete_plastic") /\ request'.answer) =>
           /\ request'.idx = combo_current(plastic_combo)
           /\ removed_at(plastics, plastics', request'.idx)
           /\ printers' = printers
      /\ (ran("_create_printer") \/ ran("_edit_printer") \/ ran("_delete_printer")) =>
           plastics' = plastics
      /\ (ran("_create_plastic") \/ ran("_edit_plastic") \/ ran("_delete_plastic")) =>
           printers' = printers
    ]_vars

\* The second of three printers was selected and deleted: the first and the
\* third are left, in this order.
C27_Witness ==
  /\ handler = "_delete_printer"
  /\ request.answer
  /\ request.idx = 2
  /\ Len(printers) = 2
  /\ printers[1].name = <<"a">>
  /\ printers[2].name # <<"A">>

(***************************************************************************)
(* The current profiles (Spec).                                            *)
(***************************************************************************)
\* `current` is None exactly when the list is empty and is otherwise a profile
\* of the list.
current_in(profiles, current) ==
  /\ (current = None) <=> (profiles = <<>>)
  /\ current # None => \E i \in 1..Len(profiles) : profiles[i] = current

\* C28: after every completed operation (startup load, create, edit, delete,
\* import) the current printer is none exactly when the printer list is empty
\* and is otherwise a profile that is in the printer list, and the same holds
\* for the current plastic.
C28_CurrentProfileInList ==
  /\ current_in(printers, current_printer)
  /\ current_in(plastics, current_plastic)

\* One of two printers was deleted and the other one is the current printer.
C28_Witness ==
  /\ handler = "_delete_printer"
  /\ request.answer
  /\ Len(printers) = 1
  /\ current_printer = printers[1]
  /\ plastics # <<>>

(***************************************************************************)
(* custom_round on the integers (SpecRound).                               *)
(***************************************************************************)
\* C29: for all integer values v and w, custom_round is monotone (v <= w
\* implies custom_round(v) <= custom_round(w)) and rounds strictly upward by a
\* bounded amount: 0 < custom_round(v) - v <= 75.
C29_MonotoneBoundedUpward ==
  (rounded # <<>> /\ value.d = 1) =>
    /\ 0 < rounded[1] - value.n
    /\ rounded[1] - value.n <= 75
    /\ \A w \in value.n..MaxRoundValue : rounded[1] <= custom_round(RInt(w))

\* The largest step: 25 is rounded to 100.
C29_Witness == value = RInt(25) /\ rounded = <<100>>

\* The lists and the two defaults are as they were before the step.
lists_and_defaults_kept ==
  /\ printers' = printers
  /\ plastics' = plastics
  /\ settings'.electricity_cost_default = settings.electricity_cost_default
  /\ settings'.margin_default = settings.margin_default

\* The step is an import of the file the step before it exported.
imports_just_exported ==
  /\ ran("_import_config")
  /\ handler = "_export_config"
  /\ request.answer
  /\ request'.result = export_file

\* The step is an import of the document the step before it imported.
imports_again ==
  /\ ran("_import_config")
  /\ handler = "_import_config"
  /\ request'.result = request.result

\* C30: an export leaves the printer and plastic lists in memory as they were
\* and writes them to the chosen file; an import of the file that was just
\* exported leaves the lists, the electricity cost and the margin unchanged;
\* and a second import of one document leaves them as the first import did.
C30_ExportImportRoundTrip ==
  [][ /\ ran("_export_config") =>
           /\ printers' = printers
           /\ plastics' = plastics
           /\ request'.answer =>
                 document_holds(export_file', settings', printers, plastics)
      /\ imports_just_exported => lists_and_defaults_kept
      /\ imports_again => lists_and_defaults_kept ]_vars

C30_Witness ==
  /\ handler = "_import_config"
  /\ request.result = export_file
  /\ export_file = JsonFile(config_document(settings, printers, plastics))
  /\ printers # <<>>
  /\ plastics # <<>>
  /\ ops = 2


=============================================================================
